---- MODULE Spec2Model ----
(***************************************************************************)
(* Zenith OLMS: the request authorization pipeline (bearer token ->        *)
(* identity -> role gate -> procedure body), the token codec, the user     *)
(* store and the order / timeline store, as state machines.                *)
(*                                                                         *)
(* Time is Date.now() in milliseconds.  A JWT is a payload together with   *)
(* the signature over that payload; a header is the list of words          *)
(* String.split(' ') yields.                                               *)
(***************************************************************************)
EXTENDS Integers, Sequences, FiniteSets, TLC

VARIABLES
    now,        \* Date.now(), milliseconds
    ticks,      \* number of clock advances so far (bounds the clock)
    users,      \* table users: id -> row
    tokens,     \* tokens handed out by users.login
    orders,     \* table orders: id -> row
    timeline,   \* table order_timeline, in insertion (rowid) order
    seq,        \* sqlite_sequence of order_timeline (AUTOINCREMENT)
    created,    \* number of uuids drawn for orders so far
    writes,     \* number of write transactions committed so far
    req,        \* the request being answered: procedure, header, input
    ctx,        \* the context createAuthContext built for it
    warned,     \* which of its checks createAuthContext warned about (0: none)
    resp,       \* the answer
    tx,         \* the open transaction of a repository write, statement by statement
    seen,       \* what a reader on the committed store last read
    vin,        \* verifyToken's argument (token codec taken alone)
    vout,       \* verifyToken's result
    env,        \* process.env.NODE_ENV of the server process
    ui          \* the mounted React component of the client: state, effects, timers

vars == <<now, ticks, users, tokens, orders, timeline, seq, created, writes,
          req, ctx, warned, resp, tx, seen, vin, vout, env, ui>>

----------------------------------------------------------------------------
(* Bounds of the model *)

MaxTicks == 3
MaxTokens == 2
MaxWrites == 2
MaxCreated == 1
MaxGateWrites == 1
MaxNewUsers == 1
MaxFetches == 3

----------------------------------------------------------------------------
(* Token codec: auth/jwt *)

JWT_SECRET == "zenith-jwt-secret-key"

\* TOKEN_EXPIRY = '24h', in the seconds jsonwebtoken adds to iat
TOKEN_EXPIRY == 86400

NoExp == -1

EmptyPayload == [id |-> "", email |-> "", role |-> "", iat |-> 0, exp |-> NoExp]

\* the signature binds the payload to the key it was signed with
Sign(payload, key) == <<key, payload>>

\* the empty string, as a token
EmptyToken == [raw |-> "", payload |-> EmptyPayload, sig |-> Sign(EmptyPayload, "")]

NowSeconds(ms) == ms \div 1000

\* generateToken that signs the role "customer" whoever the user is
generateTokenFixedRole(user, ms) ==
    LET iat == NowSeconds(ms)
        p == [id |-> user.id, email |-> user.email, role |-> "customer",
              iat |-> iat, exp |-> iat + TOKEN_EXPIRY]
    IN [raw |-> "jwt", payload |-> p, sig |-> Sign(p, JWT_SECRET)]

generateToken(user, ms) ==
    LET iat == NowSeconds(ms)
        p == [id |-> user.id, email |-> user.email, role |-> user.role,
              iat |-> iat, exp |-> iat + TOKEN_EXPIRY]
    IN [raw |-> "jwt", payload |-> p, sig |-> Sign(p, JWT_SECRET)]

\* jwt.verify(token, JWT_SECRET): "ok", or the error it throws
JwtVerify(token, ms) ==
    IF token.sig # Sign(token.payload, JWT_SECRET) THEN "JsonWebTokenError"
    ELSE IF token.payload.exp # NoExp /\ NowSeconds(ms) >= token.payload.exp
    THEN "TokenExpiredError"
    ELSE "ok"

\* verifyToken's outcome: the decoded payload (ok), null, or an error let through
Null == [ok |-> FALSE, payload |-> EmptyPayload, raised |-> FALSE]

\* verifyToken without its catch and without any expiry check
verifyTokenLax(token, ms) ==
    IF token.raw = "" THEN Null
    ELSE IF token.sig # Sign(token.payload, JWT_SECRET)
    THEN [ok |-> FALSE, payload |-> EmptyPayload, raised |-> TRUE]
    ELSE IF token.payload.id = "" \/ token.payload.email = "" \/ token.payload.role = ""
    THEN Null
    ELSE [ok |-> TRUE, payload |-> token.payload, raised |-> FALSE]

verifyToken(token, ms) ==
    IF token.raw = "" THEN Null
    ELSE IF JwtVerify(token, ms) # "ok" THEN Null    \* catch (error) { return null }
    ELSE LET decoded == token.payload IN
         IF decoded.id = "" \/ decoded.email = "" \/ decoded.role = "" THEN Null
         ELSE IF decoded.exp # NoExp /\ decoded.exp < NowSeconds(ms) THEN Null
         ELSE [ok |-> TRUE, payload |-> decoded, raised |-> FALSE]

----------------------------------------------------------------------------
(* User store: database/userRepository and the seed *)

Roles == {"admin", "customer", "factory"}

\* bcrypt.hashSync / bcrypt.compare
Hash(password) == <<"bcrypt", password>>
BcryptCompare(password, hash) == hash = Hash(password)

SeedUserIds == {"admin-1", "customer-1", "factory-1"}

SeedUsers ==
    [u \in SeedUserIds |->
        CASE u = "admin-1" ->
               [name |-> "Admin User", email |-> "admin@zenith.com",
                password |-> Hash("admin123"), role |-> "admin"]
          [] u = "customer-1" ->
               [name |-> "Customer One", email |-> "customer@zenith.com",
                password |-> Hash("customer123"), role |-> "customer"]
          [] u = "factory-1" ->
               [name |-> "Factory Staff", email |-> "factory@zenith.com",
                password |-> Hash("factory123"), role |-> "factory"]]

NoUser == [id |-> "", name |-> "", email |-> "", role |-> ""]

\* SELECT id, name, email, role FROM users WHERE id = ?
UserGetById(id) ==
    IF id \in DOMAIN users
    THEN [id |-> id, name |-> users[id].name, email |-> users[id].email,
          role |-> users[id].role]
    ELSE NoUser

\* SELECT ... FROM users WHERE email = ?   (email is UNIQUE)
UserIdByEmail(email) ==
    IF \E u \in DOMAIN users : users[u].email = email
    THEN CHOOSE u \in DOMAIN users : users[u].email = email
    ELSE ""

\* the development shortcut of authenticate: the three seeded credential pairs
TestCredentials(email, password) ==
    \/ email = "admin@zenith.com" /\ password = "admin123"
    \/ email = "factory@zenith.com" /\ password = "factory123"
    \/ email = "customer@zenith.com" /\ password = "customer123"

authenticate(email, password) ==
    LET id == UserIdByEmail(email) IN
    IF id = "" THEN NoUser
    ELSE IF TestCredentials(email, password) THEN UserGetById(id)
    ELSE IF ~BcryptCompare(password, users[id].password) THEN NoUser
    ELSE UserGetById(id)

----------------------------------------------------------------------------
(* Authorization pipeline: core/trpc *)

NoHeader == [present |-> FALSE, scheme |-> "", rest |-> <<>>]

\* "<scheme> <word> <word>...": rest holds the words after the first space
Header(scheme, rest) == [present |-> TRUE, scheme |-> scheme, rest |-> rest]

Bearer(token) == Header("Bearer", <<token>>)

\* authHeader.startsWith('Bearer ')
StartsWithBearer(h) == h.scheme = "Bearer" /\ Len(h.rest) >= 1

\* authHeader.split(' ')[1]
HeaderToken(h) == IF Len(h.rest) >= 1 THEN h.rest[1] ELSE EmptyToken

\* !authHeader: undefined, or the empty string
NoAuthHeader(h) == ~h.present \/ (h.scheme = "" /\ h.rest = <<>>)

\* createAuthContext without the 'Bearer ' check (any scheme passes)
AuthFailStepAnyScheme(h, ms) ==
    IF ~h.present \/ (h.scheme = "" /\ h.rest = <<>>) THEN 1
    ELSE IF (IF Len(h.rest) >= 1 THEN h.rest[1] ELSE EmptyToken).raw = "" THEN 3
    ELSE IF ~verifyToken(h.rest[1], ms).ok THEN 4
    ELSE IF verifyToken(h.rest[1], ms).payload.id \notin DOMAIN users THEN 5
    ELSE 0

\* the first of the five checks of createAuthContext that fails, 0 when none does
AuthFailStep(h, ms) ==
    IF NoAuthHeader(h) THEN 1
    ELSE IF ~StartsWithBearer(h) THEN 2
    ELSE IF HeaderToken(h).raw = "" THEN 3
    ELSE IF ~verifyToken(HeaderToken(h), ms).ok THEN 4
    ELSE IF UserGetById(verifyToken(HeaderToken(h), ms).payload.id) = NoUser THEN 5
    ELSE 0

Unauthenticated == [isAuthenticated |-> FALSE, user |-> NoUser]

\* createAuthContext that trusts the token's email and role once the user exists
createAuthContextFromToken(h, ms) ==
    IF AuthFailStep(h, ms) # 0 THEN Unauthenticated
    ELSE [isAuthenticated |-> TRUE,
          user |-> [UserGetById(verifyToken(HeaderToken(h), ms).payload.id) EXCEPT
                      !.email = verifyToken(HeaderToken(h), ms).payload.email,
                      !.role = verifyToken(HeaderToken(h), ms).payload.role]]

createAuthContext(h, ms) ==
    IF AuthFailStep(h, ms) # 0 THEN Unauthenticated
    ELSE [isAuthenticated |-> TRUE,
          user |-> UserGetById(verifyToken(HeaderToken(h), ms).payload.id)]

\* middleware results: "next", or the TRPCError code thrown
isAuthorized(c) ==
    IF ~c.isAuthenticated THEN "UNAUTHORIZED" ELSE "next"

\* withAuth that forgets the role check
withAuthAnyRole(roles, c) ==
    IF ~c.isAuthenticated THEN "UNAUTHORIZED" ELSE "next"

\* withAuth that answers a wrong role as if the resource were missing
withAuthNotFound(roles, c) ==
    IF ~c.isAuthenticated THEN "UNAUTHORIZED"
    ELSE IF roles # {} /\ c.user # NoUser /\ c.user.role \notin roles THEN "NOT_FOUND"
    ELSE "next"

withAuth(roles, c) ==
    IF ~c.isAuthenticated THEN "UNAUTHORIZED"
    ELSE IF roles # {} /\ c.user # NoUser /\ c.user.role \notin roles THEN "FORBIDDEN"
    ELSE "next"

\* the procedure builders: the middlewares a call passes, in order
publicProcedure == <<>>
protectedProcedure == <<[mw |-> "isAuthorized", roles |-> {}]>>
adminProcedure == Append(protectedProcedure, [mw |-> "withAuth", roles |-> {"admin"}])
factoryProcedure == Append(protectedProcedure, [mw |-> "withAuth", roles |-> {"factory"}])
customerProcedure == Append(protectedProcedure, [mw |-> "withAuth", roles |-> {"customer"}])

RunMiddleware(m, c) ==
    IF m.mw = "isAuthorized" THEN isAuthorized(c) ELSE withAuth(m.roles, c)

\* the code of the first middleware that throws, "next" when the body is reached
RECURSIVE RunChain(_, _)
RunChain(chain, c) ==
    IF chain = <<>> THEN "next"
    ELSE IF RunMiddleware(Head(chain), c) # "next" THEN RunMiddleware(Head(chain), c)
    ELSE RunChain(Tail(chain), c)

----------------------------------------------------------------------------
(* Order store: database/orderRepository, database/index *)

\* orderStatusSchema
Statuses == {"pending", "processing", "manufacturing", "quality_check",
             "shipped", "delivered", "cancelled"}

\* new Date().toISOString(): millisecond resolution
Iso(ms) == [fmt |-> "iso", t |-> ms]
\* the column default datetime('now'): second resolution, another format
SqlNow(ms) == [fmt |-> "sql", t |-> (ms \div 1000) * 1000]

NoDetails == <<>>
\* JSON.stringify(obj)
JsonStringify(obj) == <<"json", obj>>

SeedOrderIds == {"order-1", "order-2", "order-3"}

SeedOrder(id, ms) ==
    LET st == CASE id = "order-1" -> "processing"
                [] id = "order-2" -> "manufacturing"
                [] id = "order-3" -> "delivered"
        nm == IF id = "order-2" THEN "Priyanka Chopra" ELSE "Akshay Kumar"
        am == CASE id = "order-1" -> 12000 [] id = "order-2" -> 25000 [] id = "order-3" -> 8000
        it == CASE id = "order-1" -> "Diamond Ring"
                [] id = "order-2" -> "Diamond Necklace"
                [] id = "order-3" -> "Diamond Earrings"
    IN [user_id |-> "customer-1", status |-> st, customer_name |-> nm, amount |-> am,
        details |-> JsonStringify(it), suggestion |-> "",
        created_at |-> SqlNow(ms), updated_at |-> SqlNow(ms)]

\* the uuids uuidv4() hands out, in order
Uuids == <<"uuid-1", "uuid-2", "uuid-3", "uuid-4">>

\* the committed store as one value
Store == [orders |-> orders, timeline |-> timeline, seq |-> seq]

\* INSERT INTO order_timeline (...): the rowid comes from sqlite_sequence
InsertTimeline(D, orderId, status, description, ts) ==
    [D EXCEPT !.timeline = Append(@, [id |-> D.seq + 1, order_id |-> orderId,
                                       status |-> status, description |-> description,
                                       created_at |-> ts]),
              !.seq = @ + 1]

\* INSERT INTO orders (...)
InsertOrder(D, id, row) ==
    [D EXCEPT !.orders = (id :> row) @@ D.orders]

\* UPDATE orders SET status = ?, updated_at = ? WHERE id = ?
UpdateOrderStatus(D, id, status, ms) ==
    IF id \in DOMAIN D.orders
    THEN [D EXCEPT !.orders[id].status = status, !.orders[id].updated_at = Iso(ms)]
    ELSE D

\* an UPDATE that keeps a suggestion already there
UpdateOrderSuggestionKeep(D, id, suggestion, ms) ==
    IF id \in DOMAIN D.orders
    THEN [D EXCEPT !.orders[id].suggestion = IF @ = "" THEN suggestion ELSE @,
                   !.orders[id].updated_at = Iso(ms)]
    ELSE D

\* an UPDATE that sets the suggestion on every row
UpdateOrderSuggestionAll(D, id, suggestion, ms) ==
    [D EXCEPT !.orders = [o \in DOMAIN D.orders |->
                             [D.orders[o] EXCEPT !.suggestion = suggestion,
                                                 !.updated_at = Iso(ms)]]]

\* UPDATE orders SET suggestion = ?, updated_at = ? WHERE id = ?
UpdateOrderSuggestion(D, id, suggestion, ms) ==
    IF id \in DOMAIN D.orders
    THEN [D EXCEPT !.orders[id].suggestion = suggestion, !.orders[id].updated_at = Iso(ms)]
    ELSE D

RECURSIVE SelectSeq2(_, _)
SelectSeq2(s, orderId) ==
    IF s = <<>> THEN <<>>
    ELSE IF Head(s).order_id = orderId THEN SelectSeq2(Tail(s), orderId)
    ELSE <<Head(s)>> \o SelectSeq2(Tail(s), orderId)

\* DELETE FROM order_timeline WHERE order_id = ?
DeleteTimeline(D, orderId) == [D EXCEPT !.timeline = SelectSeq2(@, orderId)]

\* DELETE FROM orders WHERE id = ?
DeleteOrderRow(D, id) ==
    [D EXCEPT !.orders = [o \in DOMAIN D.orders \ {id} |-> D.orders[o]]]

\* the seed of initDatabase, run at time ms on empty tables
RECURSIVE SeedOrders(_, _, _)
SeedOrders(D, ids, ms) ==
    IF ids = <<>> THEN D
    ELSE SeedOrders(
            InsertTimeline(InsertOrder(D, Head(ids), SeedOrder(Head(ids), ms)),
                           Head(ids), SeedOrder(Head(ids), ms).status,
                           <<"Order ", SeedOrder(Head(ids), ms).status>>, SqlNow(ms)),
            Tail(ids), ms)

seedInitialData(ms) ==
    SeedOrders([orders |-> <<>>, timeline |-> <<>>, seq |-> 0],
               <<"order-1", "order-2", "order-3">>, ms)

NoOrder == [id |-> "", user_id |-> "", status |-> "", customer_name |-> "", amount |-> 0,
            details |-> NoDetails, suggestion |-> "",
            created_at |-> Iso(0), updated_at |-> Iso(0)]

\* a row of orders as the driver returns it
OrderRow(D, id) ==
    [id |-> id, user_id |-> D.orders[id].user_id, status |-> D.orders[id].status,
     customer_name |-> D.orders[id].customer_name, amount |-> D.orders[id].amount,
     details |-> D.orders[id].details, suggestion |-> D.orders[id].suggestion,
     created_at |-> D.orders[id].created_at, updated_at |-> D.orders[id].updated_at]

OrderGetAll(D) == {OrderRow(D, id) : id \in DOMAIN D.orders}
OrderGetByUserId(D, userId) == {o \in OrderGetAll(D) : o.user_id = userId}
OrderGetByStatus(D, status) == {o \in OrderGetAll(D) : o.status = status}
OrderGetById(D, id) == IF id \in DOMAIN D.orders THEN OrderRow(D, id) ELSE NoOrder

\* SELECT * FROM order_timeline WHERE order_id = ? (rows in rowid order)
TimelineRows(D, orderId) == SelectSeq(D.timeline, LAMBDA e : e.order_id = orderId)

\* created_at is TEXT: ORDER BY compares the strings. 'YYYY-MM-DD' first; on one day
\* 'YYYY-MM-DD HH:MM:SS' sorts before 'YYYY-MM-DDTHH:MM:SS.sssZ' (' ' < 'T'); two
\* strings of one format compare as their times do
Day(c) == c.t \div 86400000
CreatedAtBefore(a, b) ==
    \/ Day(a) < Day(b)
    \/ /\ Day(a) = Day(b)
       /\ \/ a.fmt = "sql" /\ b.fmt = "iso"
          \/ a.fmt = b.fmt /\ a.t < b.t

\* the orderings of rows that ORDER BY created_at ASC can return: rows with equal
\* created_at come in an order SQL leaves open
OrderByCreatedAt(rows) ==
    LET n == Len(rows)
        perms == {f \in [1..n -> 1..n] : \A i, j \in 1..n : i # j => f[i] # f[j]}
    IN {[i \in 1..n |-> rows[f[i]]] : f \in
           {g \in perms : \A i, j \in 1..n :
               i < j => ~CreatedAtBefore(rows[g[j]].created_at, rows[g[i]].created_at)}}

\* SELECT * FROM order_timeline WHERE order_id = ? ORDER BY created_at ASC
getOrderTimeline(D, orderId) == OrderByCreatedAt(TimelineRows(D, orderId))

\* the two statements of create's transaction
CreateTx(D, id, data, ms) ==
    InsertTimeline(
        InsertOrder(D, id, [user_id |-> data.user_id, status |-> data.status,
                            customer_name |-> data.customer_name, amount |-> data.amount,
                            details |-> data.details, suggestion |-> "",
                            created_at |-> Iso(ms), updated_at |-> Iso(ms)]),
        id, data.status, <<"Order created with status: ", data.status>>, Iso(ms))

\* FOREIGN KEY (user_id) REFERENCES users(id), with foreign_keys = ON
CreateThrows(data) == data.user_id \notin DOMAIN users

\* description || `Status changed to ${newStatus}`
StatusDescription(description, newStatus) ==
    IF description = <<>> THEN <<"Status changed to ", newStatus>> ELSE description

\* updateStatus that records the status the order had before
UpdateStatusTxOldStatus(D, id, newStatus, description, ms) ==
    InsertTimeline(UpdateOrderStatus(D, id, newStatus, ms),
                   id, D.orders[id].status, StatusDescription(description, newStatus),
                   Iso(ms))

\* the two statements of updateStatus's transaction
UpdateStatusTx(D, id, newStatus, description, ms) ==
    InsertTimeline(UpdateOrderStatus(D, id, newStatus, ms),
                   id, newStatus, StatusDescription(description, newStatus), Iso(ms))

\* the two statements of delete's transaction
DeleteTx(D, id) == DeleteOrderRow(DeleteTimeline(D, id), id)

----------------------------------------------------------------------------
(* Requests and answers *)

NoInput == [none |-> TRUE]

\* a property that the object read does not have, a variable that is not set
Undefined == "<undefined>"

\* no component is mounted
NoUi == [component |-> ""]

\* the shape tRPC gives an error before the formatter: the stack only when isDev,
\* which is NODE_ENV !== 'production'
DefaultShape(code, nodeEnv) == [code |-> code, stack |-> nodeEnv # "production"]

\* errorFormatter: data.stack = error.stack, whatever the shape held
errorFormatter(shape) == [shape EXCEPT !.stack = TRUE]

\* an answer: the TRPCError code ("OK" for a result), whether the procedure body
\* was entered, and the payload by kind
Answer(code, message, ran) ==
    [code |-> code, message |-> message, ran |-> ran, user |-> NoUser,
     token |-> EmptyToken, order |-> NoOrder, orders |-> {}, events |-> <<>>,
     success |-> FALSE,
     analytics |-> [totalOrders |-> -1, byStatus |-> <<>>, pieChartData |-> {}],
     erp |-> [logicMate |-> "", suntec |-> ""],
     combinedStatus |-> "", users |-> {},
     stack |-> code \notin {"", "OK"} /\ errorFormatter(DefaultShape(code, env)).stack]

Idle == Answer("", "", FALSE)

\* the answer of a call that a middleware of the chain stops
Rejected(chain, c) == Answer(RunChain(chain, c), "middleware", FALSE)

\* a plain Error thrown by a body reaches the caller as INTERNAL_SERVER_ERROR
Thrown(message) == Answer("INTERNAL_SERVER_ERROR", message, TRUE)

Ok == Answer("OK", "", TRUE)

Admitted(chain, h) == RunChain(chain, createAuthContext(h, now)) = "next"

\* createContext runs for every call, then the procedure's middlewares, and the
\* input is parsed only behind them
Receive(proc, chain, h, input) ==
    /\ req' = [proc |-> proc, chain |-> chain, header |-> h,
               input |-> IF Admitted(chain, h) THEN input ELSE NoInput]
    /\ ctx' = createAuthContext(h, now)
    /\ warned' = AuthFailStep(h, now)

Caller(h) == createAuthContext(h, now).user

StoreUnchanged == UNCHANGED <<orders, timeline, seq, created, writes>>
Commit(D) == /\ writes < MaxWrites
             /\ orders' = D.orders
             /\ timeline' = D.timeline
             /\ seq' = D.seq
             /\ writes' = writes + 1

Aside == UNCHANGED <<tx, seen, vin, vout, env, ui>>

\* the headers a client of this server sends: none, or a token login gave it
ClientHeaders == {NoHeader} \cup {Bearer(t) : t \in tokens}

----------------------------------------------------------------------------
(* users router *)

NoJson == [present |-> FALSE, email |-> "", password |-> ""]
Flat(email, password) == [email |-> email, password |-> password, json |-> NoJson]
Nested(email, password) ==
    [email |-> "", password |-> "",
     json |-> [present |-> TRUE, email |-> email, password |-> password]]

\* the credentials login extracts from either input shape
LoginEmail(input) ==
    IF input.email # "" /\ input.password # "" THEN input.email
    ELSE IF input.json.present THEN input.json.email ELSE ""
LoginPassword(input) ==
    IF input.email # "" /\ input.password # "" THEN input.password
    ELSE IF input.json.present THEN input.json.password ELSE ""

Emails == {"admin@zenith.com", "customer@zenith.com", "factory@zenith.com",
           "nobody@zenith.com", ""}
Passwords == {"admin123", "customer123", "factory123", "wrong", ""}
LoginInputs == {Flat(e, p) : e \in Emails, p \in Passwords}
                 \cup {Nested(e, p) : e \in Emails, p \in Passwords}

Login(h, input) ==
    LET email == LoginEmail(input)
        password == LoginPassword(input)
        user == authenticate(email, password)
        token == generateToken(user, now)
    IN /\ Receive("users.login", publicProcedure, h, input)
       /\ IF email = "" \/ password = ""
          THEN /\ resp' = Answer("BAD_REQUEST", "Email and password are required", TRUE)
               /\ UNCHANGED tokens
          ELSE IF user = NoUser
          THEN /\ resp' = Answer("UNAUTHORIZED", "Invalid credentials", TRUE)
               /\ UNCHANGED tokens
          ELSE /\ Cardinality(tokens \cup {token}) <= MaxTokens
               /\ resp' = [Ok EXCEPT !.user = user, !.token = token]
               /\ tokens' = tokens \cup {token}
       /\ StoreUnchanged
       /\ UNCHANGED <<now, ticks, users>>
       /\ Aside

UsersMe(h) ==
    /\ Receive("users.me", protectedProcedure, h, NoInput)
    /\ resp' = IF ~Admitted(protectedProcedure, h) THEN Rejected(protectedProcedure, ctx')
               ELSE IF Caller(h) = NoUser THEN Answer("UNAUTHORIZED", "Not authenticated", TRUE)
               ELSE [Ok EXCEPT !.user = Caller(h)]
    /\ StoreUnchanged
    /\ UNCHANGED <<now, ticks, users, tokens>>
    /\ Aside

----------------------------------------------------------------------------
(* The clock *)

TickSteps == {999, 43200000}

Tick(d) ==
    /\ ticks < MaxTicks
    /\ now' = now + d
    /\ ticks' = ticks + 1
    /\ StoreUnchanged
    /\ UNCHANGED <<users, tokens, req, ctx, warned, resp>>
    /\ Aside

----------------------------------------------------------------------------
(* orders router *)

\* the inputs the calls below are tried with
OrderIdInputs == {"order-1", "order-2"} \cup {Uuids[i] : i \in 1..MaxCreated}
UserIdInputs == {"admin-1", "customer-1", "no-such-user"}
StatusInputs == {"pending", "processing", "shipped", "cancelled"}
UpdateInputs == {[status |-> "pending", description |-> <<>>],
                 [status |-> "processing", description |-> <<>>],
                 [status |-> "shipped", description |-> <<"note">>],
                 [status |-> "cancelled", description |-> <<>>]}
SuggestionInputs == {"use platinum", ""}

\* every call of the orders router leaves these alone
OrdersFrame == /\ UNCHANGED <<now, ticks, users, tokens>>
               /\ Aside

OrdersGetAll(h) ==
    /\ Receive("orders.getAll", adminProcedure, h, NoInput)
    /\ resp' = IF ~Admitted(adminProcedure, h) THEN Rejected(adminProcedure, ctx')
               ELSE [Ok EXCEPT !.orders = OrderGetAll(Store)]
    /\ StoreUnchanged
    /\ OrdersFrame

OrdersGetByUserId(h, userId) ==
    /\ Receive("orders.getByUserId", protectedProcedure, h, [userId |-> userId])
    /\ resp' = IF ~Admitted(protectedProcedure, h) THEN Rejected(protectedProcedure, ctx')
               ELSE IF Caller(h).role = "customer" /\ Caller(h).id # userId
               THEN Thrown("Access denied: Cannot view other customers' orders")
               ELSE [Ok EXCEPT !.orders = OrderGetByUserId(Store, userId)]
    /\ StoreUnchanged
    /\ OrdersFrame

OrdersGetByStatus(h, status) ==
    /\ Receive("orders.getByStatus", factoryProcedure, h, [status |-> status])
    /\ resp' = IF ~Admitted(factoryProcedure, h) THEN Rejected(factoryProcedure, ctx')
               ELSE [Ok EXCEPT !.orders = OrderGetByStatus(Store, status)]
    /\ StoreUnchanged
    /\ OrdersFrame

OrdersGetById(h, id) ==
    /\ Receive("orders.getById", protectedProcedure, h, [id |-> id])
    /\ resp' = IF ~Admitted(protectedProcedure, h) THEN Rejected(protectedProcedure, ctx')
               ELSE IF OrderGetById(Store, id) = NoOrder THEN Thrown("Order not found")
               ELSE IF Caller(h).role = "customer"
                       /\ OrderGetById(Store, id).user_id # Caller(h).id
               THEN Thrown("Access denied: Cannot view this order")
               ELSE [Ok EXCEPT !.order = OrderGetById(Store, id)]
    /\ StoreUnchanged
    /\ OrdersFrame

OrdersGetOrderTimeline(h, id) ==
    /\ Receive("orders.getOrderTimeline", protectedProcedure, h, [orderId |-> id])
    /\ \E rows \in getOrderTimeline(Store, id) :
          resp' = IF ~Admitted(protectedProcedure, h)
                  THEN Rejected(protectedProcedure, ctx')
                  ELSE IF OrderGetById(Store, id) = NoOrder THEN Thrown("Order not found")
                  ELSE IF Caller(h).role = "customer"
                          /\ OrderGetById(Store, id).user_id # Caller(h).id
                  THEN Thrown("Access denied: Cannot view this order timeline")
                  ELSE [Ok EXCEPT !.events = rows]
    /\ StoreUnchanged
    /\ OrdersFrame

OrdersUpdateStatus(h, id, status, description) ==
    /\ Receive("orders.updateStatus", adminProcedure, h,
               [id |-> id, status |-> status, description |-> description])
    /\ IF ~Admitted(adminProcedure, h)
       THEN resp' = Rejected(adminProcedure, ctx') /\ StoreUnchanged
       ELSE IF OrderGetById(Store, id) = NoOrder
       THEN resp' = Thrown("Order not found or update failed") /\ StoreUnchanged
       ELSE /\ Commit(UpdateStatusTx(Store, id, status, description, now))
            /\ resp' = [Ok EXCEPT !.order = [OrderGetById(Store, id) EXCEPT
                                               !.status = status, !.updated_at = Iso(now)]]
            /\ UNCHANGED created
    /\ OrdersFrame

OrdersAddSuggestion(h, id, suggestion) ==
    /\ Receive("orders.addSuggestion", factoryProcedure, h,
               [id |-> id, suggestion |-> suggestion])
    /\ IF ~Admitted(factoryProcedure, h)
       THEN resp' = Rejected(factoryProcedure, ctx') /\ StoreUnchanged
       ELSE IF OrderGetById(Store, id) = NoOrder
       THEN resp' = Thrown("Order not found or suggestion failed") /\ StoreUnchanged
       ELSE /\ Commit(UpdateOrderSuggestion(Store, id, suggestion, now))
            /\ resp' = [Ok EXCEPT !.order = [OrderGetById(Store, id) EXCEPT
                                    !.suggestion = suggestion, !.updated_at = Iso(now)]]
            /\ UNCHANGED created
    /\ OrdersFrame

\* analytics whose total is the number of GROUP BY rows, not of orders
getAnalyticsGroups(D) ==
    LET all == OrderGetAll(D)
        present == {o.status : o \in all}
        totalOrders == Cardinality(present)
        count(st) == Cardinality({o \in all : o.status = st})
    IN [totalOrders |-> totalOrders,
        byStatus |-> [st \in present |-> count(st)],
        pieChartData |-> {[status |-> st, count |-> count(st),
                           percentage |-> IF totalOrders > 0
                                          THEN <<count(st), totalOrders>>
                                          ELSE <<0, 1>>] : st \in present}]

\* SELECT status, COUNT(*) ... GROUP BY status, then the pie chart rows;
\* a percentage (count / totalOrders) * 100 is kept as the pair <<count, totalOrders>>
getAnalytics(D) ==
    LET all == OrderGetAll(D)
        totalOrders == Cardinality(all)
        present == {o.status : o \in all}
        count(st) == Cardinality({o \in all : o.status = st})
    IN [totalOrders |-> totalOrders,
        byStatus |-> [st \in present |-> count(st)],
        pieChartData |-> {[status |-> st, count |-> count(st),
                           percentage |-> IF totalOrders > 0
                                          THEN <<count(st), totalOrders>>
                                          ELSE <<0, 1>>] : st \in present}]

OrdersGetAnalytics(h) ==
    /\ Receive("orders.getAnalytics", adminProcedure, h, NoInput)
    /\ resp' = IF ~Admitted(adminProcedure, h) THEN Rejected(adminProcedure, ctx')
               ELSE [Ok EXCEPT !.analytics = getAnalytics(Store)]
    /\ StoreUnchanged
    /\ OrdersFrame

\* createOrder's input.details is absent, a string, or an object:
\* input.details ? (typeof input.details === 'string' ? input.details
\*                                                     : JSON.stringify(input.details))
\*               : undefined
CreateDetails(d) ==
    IF d.kind = "none" \/ (d.kind = "string" /\ d.v = "") THEN NoDetails
    ELSE IF d.kind = "string" THEN <<"text", d.v>>
    ELSE JsonStringify(d.v)

\* z.number().positive()
CreateInputValid(input) == input.amount > 0

OrdersCreateOrder(h, input) ==
    LET id == Uuids[created + 1]
        data == [user_id |-> input.user_id, status |-> input.status,
                 customer_name |-> input.customer_name, amount |-> input.amount,
                 details |-> CreateDetails(input.details)]
    IN
    /\ Receive("orders.createOrder", adminProcedure, h, input)
    /\ IF ~Admitted(adminProcedure, h)
       THEN resp' = Rejected(adminProcedure, ctx') /\ StoreUnchanged
       ELSE IF ~CreateInputValid(input)
       THEN resp' = Answer("BAD_REQUEST", "zod", FALSE) /\ StoreUnchanged
       ELSE /\ created < MaxCreated
            /\ created' = created + 1
            /\ IF CreateThrows(data)
               THEN /\ resp' = Thrown("FOREIGN KEY constraint failed")
                    /\ UNCHANGED <<orders, timeline, seq, writes>>
               ELSE /\ Commit(CreateTx(Store, id, data, now))
                    /\ resp' = [Ok EXCEPT !.order =
                                  [id |-> id, user_id |-> data.user_id,
                                   status |-> data.status,
                                   customer_name |-> data.customer_name,
                                   amount |-> data.amount, details |-> data.details,
                                   suggestion |-> "",
                                   created_at |-> Iso(now), updated_at |-> Iso(now)]]
    /\ OrdersFrame

OrdersDeleteOrder(h, id) ==
    /\ Receive("orders.deleteOrder", adminProcedure, h, [id |-> id])
    /\ IF ~Admitted(adminProcedure, h)
       THEN resp' = Rejected(adminProcedure, ctx') /\ StoreUnchanged
       ELSE /\ Commit(DeleteTx(Store, id))
            /\ resp' = [Ok EXCEPT !.success = TRUE]
            /\ UNCHANGED created
    /\ OrdersFrame

CreateInput(u, st, a, d) ==
    [user_id |-> u, status |-> st, customer_name |-> "New Customer", amount |-> a,
     details |-> d]

CreateInputs ==
    {CreateInput("customer-1", "pending", 500, [kind |-> "none", v |-> ""]),
     CreateInput("admin-1", "shipped", 500, [kind |-> "object", v |-> "Gold Chain"]),
     CreateInput("customer-1", "pending", 500, [kind |-> "string", v |-> "gift wrap"]),
     CreateInput("customer-1", "pending", 0, [kind |-> "none", v |-> ""]),
     CreateInput("no-such-user", "pending", 500, [kind |-> "none", v |-> ""])}

----------------------------------------------------------------------------
(* The server: construction, then one call at a time *)

NoTx == [active |-> FALSE, op |-> "", pc |-> 0, id |-> "", status |-> "",
         description |-> <<>>, suggestion |-> "", row |-> NoOrder,
         work |-> [orders |-> <<>>, timeline |-> <<>>, seq |-> 0]]
NotCalled == [called |-> FALSE, result |-> Null]
NothingSeen == [order |-> NoOrder, events |-> <<>>]

\* NODE_ENV as the deployment guide sets it, as a developer sets it, or unset as
\* start-zenith.sh leaves it
NodeEnvs == {Undefined, "development", "production"}

Started(nodeEnv) ==
    /\ env = nodeEnv
    /\ ui = NoUi
    /\ now = 0
    /\ ticks = 0
    /\ users = SeedUsers
    /\ tokens = {}
    /\ orders = seedInitialData(0).orders
    /\ timeline = seedInitialData(0).timeline
    /\ seq = seedInitialData(0).seq
    /\ created = 0
    /\ writes = 0
    /\ req = [proc |-> "", chain |-> <<>>, header |-> NoHeader, input |-> NoInput]
    /\ ctx = Unauthenticated
    /\ warned = 0
    /\ resp = Idle
    /\ tx = NoTx
    /\ seen = NothingSeen
    /\ vin = EmptyToken
    /\ vout = NotCalled

\* the server as start-zenith.sh starts it
Init == Started(Undefined)

\* the server started in any mode
InitEnv == \E nodeEnv \in NodeEnvs : Started(nodeEnv)

\* the seeded credential pairs, and one that matches nothing
SeedLoginInputs ==
    {Flat("admin@zenith.com", "admin123"), Nested("factory@zenith.com", "factory123"),
     Flat("customer@zenith.com", "customer123"), Flat("admin@zenith.com", "wrong")}

Reads ==
    \/ \E h \in ClientHeaders : UsersMe(h)
    \/ \E h \in ClientHeaders : OrdersGetAll(h)
    \/ \E h \in ClientHeaders, u \in UserIdInputs : OrdersGetByUserId(h, u)
    \/ \E h \in ClientHeaders, st \in StatusInputs : OrdersGetByStatus(h, st)
    \/ \E h \in ClientHeaders, id \in OrderIdInputs : OrdersGetById(h, id)
    \/ \E h \in ClientHeaders, id \in OrderIdInputs : OrdersGetOrderTimeline(h, id)
    \/ \E h \in ClientHeaders : OrdersGetAnalytics(h)

Writes ==
    \/ \E h \in ClientHeaders, id \in OrderIdInputs, u \in UpdateInputs :
          OrdersUpdateStatus(h, id, u.status, u.description)
    \/ \E h \in ClientHeaders, id \in OrderIdInputs, sg \in SuggestionInputs :
          OrdersAddSuggestion(h, id, sg)
    \/ \E h \in ClientHeaders, input \in CreateInputs : OrdersCreateOrder(h, input)
    \/ \E h \in ClientHeaders, id \in OrderIdInputs : OrdersDeleteOrder(h, id)

\* every procedure of the users and orders routers, one write deep
Next ==
    /\ \/ \E input \in SeedLoginInputs : Login(NoHeader, input)
       \/ Reads
       \/ Writes
    /\ writes' <= MaxGateWrites

Spec == Init /\ [][Next]_vars

StaffLoginInputs ==
    {Flat("admin@zenith.com", "admin123"), Nested("factory@zenith.com", "factory123")}

\* the writing procedures of the orders router, called by the staff
NextOrders ==
    \/ \E input \in StaffLoginInputs : Login(NoHeader, input)
    \/ Writes

SpecOrders == Init /\ [][NextOrders]_vars

----------------------------------------------------------------------------
(* The authentication stage under a moving clock and arbitrary headers *)

\* a token whose payload was edited after signing: the signature no longer fits
Tamper(t) == [t EXCEPT !.payload.role = "admin", !.payload.exp = @ + TOKEN_EXPIRY]
\* a token signed with a key that is not the server's
Resign(t) == [t EXCEPT !.sig = Sign(t.payload, "guessed-key")]
\* a token under the server's key whose payload lacks the email
Strip(t) == [raw |-> "jwt", payload |-> [t.payload EXCEPT !.email = ""],
             sig |-> Sign([t.payload EXCEPT !.email = ""], JWT_SECRET)]

Presentable == tokens \cup {Tamper(t) : t \in tokens} \cup {Resign(t) : t \in tokens}
                      \cup {Strip(t) : t \in tokens}

\* "", "Bearer", "Bearer ", "Bearer <t>", "Bearer  <t>", and the same under "Basic"
RequestHeaders ==
    {NoHeader, Header("", <<>>)}
      \cup {Header(sch, r) : sch \in {"Bearer", "Basic"},
                            r \in {<<>>, <<EmptyToken>>}
                                    \cup {<<t>> : t \in Presentable}
                                    \cup {<<EmptyToken, t>> : t \in tokens}}

NextAuth ==
    \/ \E d \in TickSteps : Tick(d)
    \/ \E input \in LoginInputs : Login(NoHeader, input)
    \/ \E h \in RequestHeaders : UsersMe(h)
    \/ \E h \in RequestHeaders : OrdersGetAll(h)

SpecAuth == Init /\ [][NextAuth]_vars

----------------------------------------------------------------------------
(* The user store edited underneath the pipeline: UserRepository.update, delete *)

UserEdits == {[role |-> "admin", email |-> ""], [role |-> "customer", email |-> ""],
              [role |-> "", email |-> "renamed@zenith.com"]}

\* UPDATE users SET role = ?, email = ?, updated_at = ? WHERE id = ?  (email is UNIQUE)
UserUpdate(userId, userData) ==
    /\ writes < MaxWrites
    /\ userId \in DOMAIN users
    /\ userData.email = "" \/ UserIdByEmail(userData.email) \in {"", userId}
    /\ users' = [users EXCEPT
                   ![userId].role = IF userData.role # "" THEN userData.role ELSE @,
                   ![userId].email = IF userData.email # "" THEN userData.email ELSE @]
    /\ writes' = writes + 1
    /\ UNCHANGED <<now, ticks, tokens, orders, timeline, seq, created,
                   req, ctx, warned, resp>>
    /\ Aside

\* DELETE FROM users WHERE id = ?   (orders.user_id REFERENCES users(id))
UserDelete(userId) ==
    /\ writes < MaxWrites
    /\ userId \in DOMAIN users
    /\ OrderGetByUserId(Store, userId) = {}
    /\ users' = [u \in DOMAIN users \ {userId} |-> users[u]]
    /\ writes' = writes + 1
    /\ UNCHANGED <<now, ticks, tokens, orders, timeline, seq, created,
                   req, ctx, warned, resp>>
    /\ Aside

NextStore ==
    \/ \E input \in SeedLoginInputs : Login(NoHeader, input)
    \/ \E h \in RequestHeaders : UsersMe(h)
    \/ \E h \in RequestHeaders : OrdersGetAll(h)
    \/ \E u \in SeedUserIds, d \in UserEdits : UserUpdate(u, d)
    \/ \E u \in SeedUserIds : UserDelete(u)

SpecStore == Init /\ [][NextStore]_vars

----------------------------------------------------------------------------
(* The token codec taken alone *)

VerifyPayloads ==
    {[id |-> i, email |-> e, role |-> r, iat |-> 0, exp |-> x] :
        i \in {"", "admin-1"}, e \in {"", "admin@zenith.com"}, r \in {"", "admin"},
        x \in {NoExp, TOKEN_EXPIRY, TOKEN_EXPIRY + 1}}

VerifyInputs ==
    {EmptyToken}
      \cup {[raw |-> "jwt", payload |-> p, sig |-> Sign(p, k)] :
               p \in VerifyPayloads, k \in {JWT_SECRET, "guessed-key"}}
      \cup {Tamper([raw |-> "jwt", payload |-> p, sig |-> Sign(p, JWT_SECRET)]) :
               p \in VerifyPayloads}

VerifyTimes == {0, 86399999, 86400000, 86400999, 86401000, 86402000}

InitVerify ==
    /\ now \in VerifyTimes
    /\ vin \in VerifyInputs
    /\ vout = NotCalled
    /\ ticks = 0 /\ users = SeedUsers /\ tokens = {}
    /\ orders = seedInitialData(0).orders
    /\ timeline = seedInitialData(0).timeline
    /\ seq = seedInitialData(0).seq
    /\ created = 0 /\ writes = 0
    /\ req = [proc |-> "", chain |-> <<>>, header |-> NoHeader, input |-> NoInput]
    /\ ctx = Unauthenticated /\ warned = 0 /\ resp = Idle
    /\ tx = NoTx /\ seen = NothingSeen
    /\ env = Undefined /\ ui = NoUi

Verify ==
    /\ ~vout.called
    /\ vout' = [called |-> TRUE, result |-> verifyToken(vin, now)]
    /\ UNCHANGED <<now, ticks, users, tokens, orders, timeline, seq, created, writes,
                   req, ctx, warned, resp, tx, seen, vin, env, ui>>

NextVerify == Verify

SpecVerify == InitVerify /\ [][NextVerify]_vars

----------------------------------------------------------------------------
(* The repository's write transactions statement by statement, with a reader *)
(* on the committed store in between                                         *)

\* statements that take effect one by one, outside any transaction
ReadViewDirty(D, txn) == IF txn.active THEN txn.work ELSE D

\* db.transaction(...): what a statement of another call reads while the
\* transaction txn is open over the committed store D
ReadView(D, txn) == D

\* foreign_keys = OFF
TimelineFkOff(D, orderId) == FALSE

\* FOREIGN KEY (order_id) REFERENCES orders(id), with foreign_keys = ON: an
\* INSERT INTO order_timeline for an order that is not there throws
TimelineFkThrows(D, orderId) == orderId \notin DOMAIN D.orders

\* FOREIGN KEY (order_id) REFERENCES orders(id): a DELETE FROM orders of an order
\* that still has timeline rows throws
OrderFkThrows(D, orderId) == \E i \in 1..Len(D.timeline) : D.timeline[i].order_id = orderId

TxFrame == UNCHANGED <<now, ticks, users, tokens, req, ctx, warned, resp, seen, vin, vout,
                       env, ui>>

\* how a call ended: 4 for a result, 5 for null or an exception
TxEnded(txn, how) == [NoTx EXCEPT !.op = txn.op, !.id = txn.id, !.pc = how]

\* updateStatus: getById found the order; the transaction is about to start
TxBeginUpdateStatus(id, u) ==
    /\ ~tx.active
    /\ writes < MaxWrites
    /\ OrderGetById(Store, id) # NoOrder
    /\ tx' = [NoTx EXCEPT !.active = TRUE, !.op = "updateStatus", !.pc = 1, !.id = id,
                          !.status = u.status, !.description = u.description,
                          !.work = Store]
    /\ TxFrame
    /\ StoreUnchanged

\* addSuggestion: getById found the order; the UPDATE is about to run
TxBeginAddSuggestion(id, suggestion) ==
    /\ ~tx.active
    /\ writes < MaxWrites
    /\ OrderGetById(Store, id) # NoOrder
    /\ tx' = [NoTx EXCEPT !.active = TRUE, !.op = "addSuggestion", !.pc = 1, !.id = id,
                          !.suggestion = suggestion, !.work = Store]
    /\ TxFrame
    /\ StoreUnchanged

\* updateStatus, addSuggestion: getById found nothing, return null
TxNotFound(op, id) ==
    /\ ~tx.active
    /\ OrderGetById(Store, id) = NoOrder
    /\ tx' = TxEnded([NoTx EXCEPT !.op = op, !.id = id], 5)
    /\ TxFrame
    /\ StoreUnchanged

TxBeginCreate(input) ==
    /\ ~tx.active
    /\ writes < MaxWrites
    /\ created < MaxCreated
    /\ created' = created + 1
    /\ tx' = [NoTx EXCEPT !.active = TRUE, !.op = "create", !.pc = 1,
                          !.id = Uuids[created + 1], !.status = input.status,
                          !.row = [NoOrder EXCEPT
                                     !.user_id = input.user_id,
                                     !.status = input.status,
                                     !.customer_name = input.customer_name,
                                     !.amount = input.amount,
                                     !.details = CreateDetails(input.details)],
                          !.work = Store]
    /\ TxFrame
    /\ UNCHANGED <<orders, timeline, seq, writes>>

\* delete: no look-up first
TxBeginDelete(id) ==
    /\ ~tx.active
    /\ writes < MaxWrites
    /\ tx' = [NoTx EXCEPT !.active = TRUE, !.op = "delete", !.pc = 1, !.id = id,
                          !.work = Store]
    /\ TxFrame
    /\ StoreUnchanged

\* a delete issued through another connection commits after this call's look-up and
\* before its first write, which then runs on the store as that delete left it
TxOtherDelete(id) ==
    /\ tx.active
    /\ tx.pc = 1
    /\ id \in DOMAIN orders
    /\ Commit(DeleteTx(Store, id))
    /\ tx' = [tx EXCEPT !.work = DeleteTx(Store, id)]
    /\ UNCHANGED created
    /\ TxFrame

\* the statement the open call is at throws on a constraint
TxThrows ==
    \/ tx.op = "create" /\ tx.pc = 1 /\ CreateThrows(tx.row)
    \/ tx.op \in {"create", "updateStatus"} /\ tx.pc = 2
          /\ TimelineFkThrows(tx.work, tx.id)
    \/ tx.op = "delete" /\ tx.pc = 2 /\ OrderFkThrows(tx.work, tx.id)

\* addSuggestion that does not look at result.changes
TxNoChangesIgnored == FALSE

\* addSuggestion: result.changes === 0
TxNoChanges == tx.op = "addSuggestion" /\ tx.pc = 1 /\ tx.id \notin DOMAIN tx.work.orders

\* the next statement of the open call, on its working copy
TxStatement ==
    /\ tx.active
    /\ tx.pc \in {1, 2}
    /\ ~TxThrows
    /\ ~TxNoChanges
    /\ tx' = [tx EXCEPT
                !.pc = IF tx.op = "addSuggestion" THEN 3 ELSE @ + 1,
                !.work =
                   CASE tx.op = "create" /\ tx.pc = 1 ->
                           InsertOrder(tx.work, tx.id,
                              [user_id |-> tx.row.user_id, status |-> tx.row.status,
                               customer_name |-> tx.row.customer_name,
                               amount |-> tx.row.amount, details |-> tx.row.details,
                               suggestion |-> "",
                               created_at |-> Iso(now), updated_at |-> Iso(now)])
                     [] tx.op = "create" /\ tx.pc = 2 ->
                           InsertTimeline(tx.work, tx.id, tx.status,
                              <<"Order created with status: ", tx.status>>, Iso(now))
                     [] tx.op = "updateStatus" /\ tx.pc = 1 ->
                           UpdateOrderStatus(tx.work, tx.id, tx.status, now)
                     [] tx.op = "updateStatus" /\ tx.pc = 2 ->
                           InsertTimeline(tx.work, tx.id, tx.status,
                              StatusDescription(tx.description, tx.status), Iso(now))
                     [] tx.op = "delete" /\ tx.pc = 1 -> DeleteTimeline(tx.work, tx.id)
                     [] tx.op = "delete" /\ tx.pc = 2 -> DeleteOrderRow(tx.work, tx.id)
                     [] OTHER -> UpdateOrderSuggestion(tx.work, tx.id, tx.suggestion, now)]
    /\ TxFrame
    /\ StoreUnchanged

\* COMMIT, after the last statement
TxCommit ==
    /\ tx.active
    /\ tx.pc = 3
    /\ Commit(tx.work)
    /\ tx' = TxEnded(tx, 4)
    /\ UNCHANGED created
    /\ TxFrame

\* a statement throws (a constraint, the disk) or changes no row: ROLLBACK
TxRollback ==
    /\ tx.active
    /\ tx.pc \in {1, 2}
    /\ tx' = TxEnded(tx, 5)
    /\ TxFrame
    /\ StoreUnchanged

\* another call reads an order and its timeline (getById, then getOrderTimeline)
TxRead(id) ==
    /\ \E rows \in getOrderTimeline(ReadView(Store, tx), id) :
          seen' = [order |-> OrderGetById(ReadView(Store, tx), id), events |-> rows]
    /\ UNCHANGED <<now, ticks, users, tokens, req, ctx, warned, resp, tx, vin, vout,
                   env, ui>>
    /\ StoreUnchanged

TxUpdates == {u \in UpdateInputs : u.status \in {"pending", "shipped"}}

NextTx ==
    \/ \E id \in OrderIdInputs, u \in TxUpdates : TxBeginUpdateStatus(id, u)
    \/ \E id \in OrderIdInputs, sg \in SuggestionInputs : TxBeginAddSuggestion(id, sg)
    \/ \E op \in {"updateStatus", "addSuggestion"}, id \in OrderIdInputs : TxNotFound(op, id)
    \/ \E input \in CreateInputs : TxBeginCreate(input)
    \/ \E id \in OrderIdInputs : TxBeginDelete(id)
    \/ \E id \in OrderIdInputs : TxOtherDelete(id)
    \/ TxStatement
    \/ TxCommit
    \/ TxRollback
    \/ \E id \in OrderIdInputs : TxRead(id)

SpecTx == Init /\ [][NextTx]_vars

----------------------------------------------------------------------------
(* The timeline read back while the admin writes and the clock moves or stands *)

AdminLoginInputs == {Flat("admin@zenith.com", "admin123")}
TimelineTicks == {1, 86400000}
TimelineOrderIds == {"order-1", Uuids[1]}
TimelineUpdates == {u \in UpdateInputs : u.status \in {"processing", "shipped"}}
TimelineCreates == {CreateInput("customer-1", "pending", 500, [kind |-> "none", v |-> ""])}

NextTimeline ==
    \/ \E d \in TimelineTicks : Tick(d)
    \/ \E input \in AdminLoginInputs : Login(NoHeader, input)
    \/ \E h \in ClientHeaders, id \in TimelineOrderIds, u \in TimelineUpdates :
          OrdersUpdateStatus(h, id, u.status, u.description)
    \/ \E h \in ClientHeaders, input \in TimelineCreates : OrdersCreateOrder(h, input)
    \/ \E h \in ClientHeaders, id \in TimelineOrderIds : OrdersGetOrderTimeline(h, id)

SpecTimeline == Init /\ [][NextTimeline]_vars

----------------------------------------------------------------------------
(* The repository written directly, as admitted admin calls do, down to an empty *)
(* orders table, with the analytics read in between                              *)

MaxRepoWrites == 4

RepoFrame == /\ UNCHANGED <<now, ticks, users, tokens, req, ctx, warned, resp>>
             /\ Aside

RepoCommit(D) == /\ writes < MaxRepoWrites
                 /\ orders' = D.orders
                 /\ timeline' = D.timeline
                 /\ seq' = D.seq
                 /\ writes' = writes + 1

\* orderRepository.create(orderData)
RepoCreate(input) ==
    LET data == [user_id |-> input.user_id, status |-> input.status,
                 customer_name |-> input.customer_name, amount |-> input.amount,
                 details |-> CreateDetails(input.details)]
    IN /\ created < MaxCreated
       /\ ~CreateThrows(data)
       /\ created' = created + 1
       /\ RepoCommit(CreateTx(Store, Uuids[created + 1], data, now))
       /\ RepoFrame

\* orderRepository.updateStatus(orderId, newStatus)
RepoUpdateStatus(id, u) ==
    /\ OrderGetById(Store, id) # NoOrder
    /\ RepoCommit(UpdateStatusTx(Store, id, u.status, u.description, now))
    /\ UNCHANGED created
    /\ RepoFrame

\* orderRepository.delete(orderId)
RepoDelete(id) ==
    /\ RepoCommit(DeleteTx(Store, id))
    /\ UNCHANGED created
    /\ RepoFrame

RepoCreates == {c \in CreateInputs : c.amount > 0 /\ c.details.kind # "string"}

NextAnalytics ==
    \/ \E input \in AdminLoginInputs : Login(NoHeader, input)
    \/ \E input \in RepoCreates : RepoCreate(input)
    \/ \E id \in {"order-1", "order-2"}, u \in TimelineUpdates : RepoUpdateStatus(id, u)
    \/ \E id \in SeedOrderIds : RepoDelete(id)
    \/ \E h \in ClientHeaders : OrdersGetAnalytics(h)

SpecAnalytics == Init /\ [][NextAnalytics]_vars

----------------------------------------------------------------------------
(* An order created and fetched back *)

RoundTripCreates ==
    CreateInputs \cup {CreateInput("customer-1", "processing", 500,
                                    [kind |-> "string", v |-> ""])}

NextRoundTrip ==
    \/ \E d \in TimelineTicks : Tick(d)
    \/ \E input \in AdminLoginInputs : Login(NoHeader, input)
    \/ \E h \in ClientHeaders, input \in RoundTripCreates : OrdersCreateOrder(h, input)
    \/ \E h \in ClientHeaders, id \in TimelineOrderIds : OrdersGetById(h, id)
    \/ \E h \in ClientHeaders, id \in TimelineOrderIds : OrdersGetOrderTimeline(h, id)

SpecRoundTrip == Init /\ [][NextRoundTrip]_vars

----------------------------------------------------------------------------
(* The ERP fan-out sync *)

\* how the call of an ERP adapter ends: with the adapter's data, or rejected
AdapterOutcomes == {"data", "rejected"}

SyncThrew == [threw |-> TRUE, logicMate |-> "", suntec |-> ""]

\* ERPIntegrationService.syncAllSystems: Promise.all over the two adapter calls
syncAllSystems(logicMateData, suntecData) ==
    IF \E r \in {logicMateData, suntecData} : r = "rejected"
    THEN SyncThrew
    ELSE [threw |-> FALSE, logicMate |-> logicMateData, suntec |-> suntecData]

\* ERPService.syncAllSystems: await the one, then await the other
ServiceSyncAllSystems(logicMateData, suntecData) ==
    IF logicMateData = "rejected" THEN SyncThrew
    ELSE IF suntecData = "rejected" THEN SyncThrew
    ELSE [threw |-> FALSE, logicMate |-> logicMateData, suntec |-> suntecData]

\* erpService, whichever of the two the import resolves to
ErpServices == {"ERPIntegrationService", "ERPService"}
ErpSync(service, lm, st) ==
    IF service = "ERPIntegrationService" THEN syncAllSystems(lm, st)
    ELSE ServiceSyncAllSystems(lm, st)

\* erp.syncAll
ErpSyncAll(h, service, lm, st) ==
    /\ Receive("erp.syncAll", adminProcedure, h,
               [service |-> service, logicMate |-> lm, suntec |-> st])
    /\ resp' = IF ~Admitted(adminProcedure, h) THEN Rejected(adminProcedure, ctx')
               ELSE IF ErpSync(service, lm, st).threw
               THEN Answer("INTERNAL_SERVER_ERROR", "ERP sync failed", TRUE)
               ELSE [Ok EXCEPT !.success = TRUE,
                               !.erp = [logicMate |-> ErpSync(service, lm, st).logicMate,
                                        suntec |-> ErpSync(service, lm, st).suntec]]
    /\ StoreUnchanged
    /\ UNCHANGED <<now, ticks, users, tokens>>
    /\ Aside

\* GET /api/erp/sync: an express route, outside the tRPC pipeline
RestErpSync(service, lm, st) ==
    /\ req' = [proc |-> "GET /api/erp/sync", chain |-> publicProcedure, header |-> NoHeader,
               input |-> [service |-> service, logicMate |-> lm, suntec |-> st]]
    /\ resp' = IF ErpSync(service, lm, st).threw
               THEN [Answer("INTERNAL_SERVER_ERROR", "ERP sync failed", TRUE)
                        EXCEPT !.stack = FALSE]
               ELSE [Ok EXCEPT !.erp = [logicMate |-> ErpSync(service, lm, st).logicMate,
                                        suntec |-> ErpSync(service, lm, st).suntec]]
    /\ StoreUnchanged
    /\ UNCHANGED <<now, ticks, users, tokens, ctx, warned>>
    /\ Aside

NextErp ==
    \/ \E d \in TickSteps : Tick(d)
    \/ \E input \in StaffLoginInputs : Login(NoHeader, input)
    \/ \E h \in ClientHeaders, sv \in ErpServices, lm \in AdapterOutcomes,
          st \in AdapterOutcomes : ErpSyncAll(h, sv, lm, st)
    \/ \E sv \in ErpServices, lm \in AdapterOutcomes, st \in AdapterOutcomes :
          RestErpSync(sv, lm, st)

SpecErp == Init /\ [][NextErp]_vars

----------------------------------------------------------------------------
(* erp router and the express routes of the ERP facade *)

\* the status an ERP system reports for an order
ErpStatusValues == {Undefined, ""} \cup Statuses

\* a || b
OrElse(a, b) == IF a \notin {Undefined, ""} THEN a ELSE b

\* getCombinedStatus without the precedence of delivered and manufacturing
getCombinedStatusFirst(erp1Status, erp2Status) == OrElse(erp1Status, erp2Status)

getCombinedStatus(erp1Status, erp2Status) ==
    IF erp1Status = "delivered" \/ erp2Status = "delivered" THEN "delivered"
    ELSE IF erp1Status = "manufacturing" \/ erp2Status = "manufacturing"
    THEN "manufacturing"
    ELSE OrElse(erp1Status, erp2Status)

\* ERPIntegrationService.getOrderDetails: Promise.all over the two look-ups, each
\* ending with the status the system reports or rejected
getOrderDetails(logicMateOrder, factoryStatus) ==
    IF \E r \in {logicMateOrder, factoryStatus} : r = "rejected"
    THEN [threw |-> TRUE, combinedStatus |-> ""]
    ELSE [threw |-> FALSE,
          combinedStatus |-> getCombinedStatus(logicMateOrder, factoryStatus)]

\* erp.getOrderERPDetails
ErpGetOrderERPDetails(h, lm, st) ==
    /\ Receive("erp.getOrderERPDetails", adminProcedure, h,
               [orderId |-> "order-1", logicMate |-> lm, suntec |-> st])
    /\ resp' = IF ~Admitted(adminProcedure, h) THEN Rejected(adminProcedure, ctx')
               ELSE IF getOrderDetails(lm, st).threw
               THEN Answer("INTERNAL_SERVER_ERROR", "Failed to fetch ERP order details", TRUE)
               ELSE [Ok EXCEPT !.erp = [logicMate |-> lm, suntec |-> st],
                               !.combinedStatus = getOrderDetails(lm, st).combinedStatus]
    /\ StoreUnchanged
    /\ UNCHANGED <<now, ticks, users, tokens>>
    /\ Aside

\* a procedure whose body is one call of one adapter inside try/catch
ErpAdapterCall(proc, chain, h, system, outcome, message) ==
    /\ Receive(proc, chain, h, [system |-> system, outcome |-> outcome])
    /\ resp' = IF ~Admitted(chain, h) THEN Rejected(chain, ctx')
               ELSE IF outcome = "rejected"
               THEN Answer("INTERNAL_SERVER_ERROR", message, TRUE)
               ELSE [Ok EXCEPT !.success = TRUE,
                               !.erp = [s \in {"logicMate", "suntec"} |->
                                           IF s = system THEN outcome ELSE ""]]
    /\ StoreUnchanged
    /\ UNCHANGED <<now, ticks, users, tokens>>
    /\ Aside

ErpGetLogicMateStatus(h, outcome) ==
    ErpAdapterCall("erp.getLogicMateStatus", adminProcedure, h, "logicMate", outcome,
                   "Failed to connect to LogicMate ERP")

ErpGetSuntecStatus(h, outcome) ==
    ErpAdapterCall("erp.getSuntecStatus", factoryProcedure, h, "suntec", outcome,
                   "Failed to connect to Suntec ERP")

ErpUpdateInventory(h, outcome) ==
    ErpAdapterCall("erp.updateInventory", adminProcedure, h, "logicMate", outcome,
                   "Failed to update inventory")

ErpUpdateFactoryStatus(h, outcome) ==
    ErpAdapterCall("erp.updateFactoryStatus", factoryProcedure, h, "suntec", outcome,
                   "Failed to update factory status")

\* app.get('/api/erp/logicmate/status') and app.get('/api/erp/suntec/status'): the
\* handler is the route's only middleware
RestErpStatus(route, h, system, outcome, message) ==
    /\ req' = [proc |-> route, chain |-> publicProcedure, header |-> h,
               input |-> [system |-> system, outcome |-> outcome]]
    /\ resp' = IF outcome = "rejected"
               THEN [Answer("INTERNAL_SERVER_ERROR", message, TRUE) EXCEPT !.stack = FALSE]
               ELSE [Ok EXCEPT !.success = TRUE,
                               !.erp = [s \in {"logicMate", "suntec"} |->
                                           IF s = system THEN outcome ELSE ""]]
    /\ StoreUnchanged
    /\ UNCHANGED <<now, ticks, users, tokens, ctx, warned>>
    /\ Aside

RestLogicMateStatus(h, outcome) ==
    RestErpStatus("GET /api/erp/logicmate/status", h, "logicMate", outcome,
                  "Failed to connect to LogicMate ERP")

RestSuntecStatus(h, outcome) ==
    RestErpStatus("GET /api/erp/suntec/status", h, "suntec", outcome,
                  "Failed to connect to Suntec ERP")

\* every entry point of the server that reaches the ERP facade, called by anyone
NextErpCalls ==
    \/ \E input \in SeedLoginInputs : Login(NoHeader, input)
    \/ \E h \in ClientHeaders, lm \in ErpStatusValues \cup {"rejected"},
          st \in ErpStatusValues \cup {"rejected"} : ErpGetOrderERPDetails(h, lm, st)
    \/ \E h \in ClientHeaders, o \in AdapterOutcomes : ErpGetLogicMateStatus(h, o)
    \/ \E h \in ClientHeaders, o \in AdapterOutcomes : ErpGetSuntecStatus(h, o)
    \/ \E h \in ClientHeaders, o \in AdapterOutcomes : ErpUpdateInventory(h, o)
    \/ \E h \in ClientHeaders, o \in AdapterOutcomes : ErpUpdateFactoryStatus(h, o)
    \/ \E h \in ClientHeaders, lm \in AdapterOutcomes, st \in AdapterOutcomes :
          ErpSyncAll(h, "ERPIntegrationService", lm, st)
    \/ \E h \in ClientHeaders, o \in AdapterOutcomes : RestLogicMateStatus(h, o)
    \/ \E h \in ClientHeaders, o \in AdapterOutcomes : RestSuntecStatus(h, o)
    \/ \E lm \in AdapterOutcomes, st \in AdapterOutcomes :
          RestErpSync("ERPIntegrationService", lm, st)

SpecErpCalls == Init /\ [][NextErpCalls]_vars

----------------------------------------------------------------------------
(* The users and orders routers on a server started in any mode *)

SpecErrors == InitEnv /\ [][Next]_vars

----------------------------------------------------------------------------
(* users router: getAll, getById, createUser, updatePassword *)

\* UserRepository.getAll
UserGetAll == {UserGetById(u) : u \in DOMAIN users}

UsersGetAll(h) ==
    /\ Receive("users.getAll", adminProcedure, h, NoInput)
    /\ resp' = IF ~Admitted(adminProcedure, h) THEN Rejected(adminProcedure, ctx')
               ELSE [Ok EXCEPT !.users = UserGetAll]
    /\ StoreUnchanged
    /\ UNCHANGED <<now, ticks, users, tokens>>
    /\ Aside

UsersGetById(h, id) ==
    /\ Receive("users.getById", protectedProcedure, h, [id |-> id])
    /\ resp' = IF ~Admitted(protectedProcedure, h)
               THEN Rejected(protectedProcedure, ctx')
               ELSE IF UserGetById(id) = NoUser
               THEN Answer("NOT_FOUND", "User not found", TRUE)
               ELSE IF Caller(h).role # "admin" /\ Caller(h).id # id
               THEN Answer("FORBIDDEN", "Access denied", TRUE)
               ELSE [Ok EXCEPT !.user = UserGetById(id)]
    /\ StoreUnchanged
    /\ UNCHANGED <<now, ticks, users, tokens>>
    /\ Aside

\* the ids uuidv4() hands out for users, in order
UserUuids == <<"user-uuid-1", "user-uuid-2", "user-uuid-3">>

\* z.string().email(), on the addresses the calls are tried with
IsEmail(e) == e \in {"admin@zenith.com", "customer@zenith.com", "factory@zenith.com",
                     "nobody@zenith.com", "new@zenith.com"}

\* createUser's input schema
CreateUserValid(input) ==
    /\ IsEmail(input.email)
    /\ Len(input.password) >= 6
    /\ input.role \in {"admin", "customer", "factory"}

\* UserRepository.create: INSERT INTO users (...), email UNIQUE
UserCreate(id, userData) ==
    (id :> [name |-> userData.name, email |-> userData.email,
            password |-> Hash(userData.password), role |-> userData.role]) @@ users

UsersCreateUser(h, input) ==
    LET n == Cardinality(DOMAIN users \ SeedUserIds) IN
    /\ Receive("users.createUser", adminProcedure, h, input)
    /\ IF ~Admitted(adminProcedure, h)
       THEN resp' = Rejected(adminProcedure, ctx') /\ UNCHANGED <<users, writes>>
       ELSE IF ~CreateUserValid(input)
       THEN resp' = Answer("BAD_REQUEST", "zod", FALSE) /\ UNCHANGED <<users, writes>>
       ELSE IF UserIdByEmail(input.email) # ""
       THEN /\ resp' = Answer("BAD_REQUEST", "UNIQUE constraint failed: users.email", TRUE)
            /\ UNCHANGED <<users, writes>>
       ELSE /\ n < MaxNewUsers
            /\ writes < MaxWrites
            /\ users' = UserCreate(UserUuids[n + 1], input)
            /\ writes' = writes + 1
            /\ resp' = [Ok EXCEPT !.user = [id |-> UserUuids[n + 1], name |-> input.name,
                                            email |-> input.email, role |-> input.role]]
    /\ UNCHANGED <<now, ticks, tokens, orders, timeline, seq, created>>
    /\ Aside

\* the UPDATE without its WHERE clause
UserUpdatePasswordAll(userId, newPassword) ==
    [u \in DOMAIN users |-> [users[u] EXCEPT !.password = Hash(newPassword)]]

\* UserRepository.updatePassword: UPDATE users SET password = ?, updated_at = ? WHERE id = ?
UserUpdatePassword(userId, newPassword) ==
    [users EXCEPT ![userId].password = Hash(newPassword)]

UsersUpdatePassword(h, userId, newPassword) ==
    /\ Receive("users.updatePassword", adminProcedure, h,
               [userId |-> userId, newPassword |-> newPassword])
    /\ IF ~Admitted(adminProcedure, h)
       THEN resp' = Rejected(adminProcedure, ctx') /\ UNCHANGED <<users, writes>>
       ELSE IF Len(newPassword) < 6
       THEN resp' = Answer("BAD_REQUEST", "zod", FALSE) /\ UNCHANGED <<users, writes>>
       ELSE IF userId \notin DOMAIN users
       THEN /\ resp' = Answer("BAD_REQUEST", "User not found", TRUE)
            /\ UNCHANGED <<users, writes>>
       ELSE /\ writes < MaxWrites
            /\ users' = UserUpdatePassword(userId, newPassword)
            /\ writes' = writes + 1
            /\ resp' = [Ok EXCEPT !.success = TRUE]
    /\ UNCHANGED <<now, ticks, tokens, orders, timeline, seq, created>>
    /\ Aside

\* the inputs the users router is tried with
UsersLoginInputs ==
    {Flat("admin@zenith.com", "admin123"), Flat("admin@zenith.com", "rotated1"),
     Nested("customer@zenith.com", "customer123"), Nested("customer@zenith.com", "rotated1"),
     Flat("customer@zenith.com", "wrong"), Flat("nobody@zenith.com", "admin123"),
     Flat("new@zenith.com", "secret12"), Flat("new@zenith.com", "rotated1"),
     Flat("admin@zenith.com", ""), Nested("", "admin123"), Flat("", "")}
UsersUserIds == {"admin-1", "customer-1", UserUuids[1], "user-404"}
NewPasswords == {"rotated1", "admin123", "short"}
CreateUserInputs ==
    {[email |-> e, password |-> p, name |-> "New User", role |-> r] :
        e \in {"new@zenith.com", "admin@zenith.com"}, p \in {"secret12", "short"},
        r \in {"customer", "root"}}

NextUsers ==
    \/ \E input \in UsersLoginInputs : Login(NoHeader, input)
    \/ \E h \in ClientHeaders : UsersMe(h)
    \/ \E h \in ClientHeaders : UsersGetAll(h)
    \/ \E h \in ClientHeaders, id \in UsersUserIds : UsersGetById(h, id)
    \/ \E h \in ClientHeaders, input \in CreateUserInputs : UsersCreateUser(h, input)
    \/ \E h \in ClientHeaders, u \in UsersUserIds, p \in NewPasswords :
          UsersUpdatePassword(h, u, p)

SpecUsers == Init /\ [][NextUsers]_vars

----------------------------------------------------------------------------
(* The client's components with a data-loading effect: App (client.tsx),        *)
(* Dashboard (components/layout/Dashboard), Dashboard (pages/dashboard)         *)
(*                                                                             *)
(* ui.state is the state of the last render, ui.queued the state with the      *)
(* updates set since; a render commits the queued state and then runs the      *)
(* effect when its dependencies differ from those of its last run. The body of *)
(* an async function up to its first await runs in the step that calls it, the *)
(* rest when the awaited call settles. flag is isCheckingAuth in App and       *)
(* isFetching in the dashboards; event is the last event of the component and  *)
(* cause the event in which the latest run started.                            *)

\* what every event of the client leaves alone
UiFrame ==
    UNCHANGED <<now, ticks, users, tokens, orders, timeline, seq, created, writes,
                req, ctx, warned, resp, tx, seen, vin, vout, env>>

\* useState(false) for the flag, useState(true) for loading
InitialState == [flag |-> FALSE, loading |-> TRUE]

\* the dependency array of the data-loading effect in a render: [isCheckingAuth],
\* [user?.id] with user read from localStorage, [role, id, isFetching] of mockUser
Deps(u, st) ==
    CASE u.component = "App" -> <<st.flag>>
      [] u.component = "Dashboard" -> <<u.user>>
      [] u.component = "DashboardPage" -> <<"admin", "customer1", st.flag>>

\* finally { setLoading(false); setIsFetching(false) / setIsCheckingAuth(false) }
Finally(u) == [u EXCEPT !.queued = [flag |-> FALSE, loading |-> FALSE]]

\* the number of awaits a run that starts has before it: getAllOrders and getAnalytics for an admin, one
\* call otherwise; loginService.getCurrentUser in App
Awaits(u) ==
    CASE u.component = "App" -> 1
      [] u.component = "Dashboard" -> IF u.user = "admin-1" THEN 2 ELSE 1
      [] u.component = "DashboardPage" -> 2

\* an async run that reached its first await; a run is the number of awaits left
Awaiting(u) ==
    [u EXCEPT !.queued = [flag |-> TRUE, loading |-> IF u.component = "App"
                                                     THEN u.queued.loading ELSE TRUE],
              !.runs = Append(@, Awaits(u)),
              !.started = @ + 1]

\* a run that returned before any await: its finally block ran in the same step
Returned(u) == [Finally(u) EXCEPT !.started = @ + 1]

\* checkAuth of a render whose isCheckingAuth was the given flag
checkAuth(u, flag) ==
    IF flag THEN u
    ELSE IF ~u.token \/ u.user = "" THEN Returned(u)
    ELSE Awaiting(u)

\* the effect of layout/Dashboard: the guard, then fetchData()
fetchData(u, flag) ==
    IF flag \/ u.user = "" THEN u
    ELSE IF ~u.token THEN Returned(u)
    ELSE Awaiting(u)

\* the effect of pages/dashboard: the guard, then loadData()
loadData(u, flag) ==
    IF flag THEN u ELSE Awaiting(u)

\* the body of the data-loading effect in a render whose flag was the given one;
\* App also sets the interval, whose callback is that render's checkAuth
Effect(u, flag) ==
    CASE u.component = "App" ->
           [checkAuth(u, flag) EXCEPT !.timers = @ + 1, !.timerFlag = flag]
      [] u.component = "Dashboard" -> fetchData(u, flag)
      [] u.component = "DashboardPage" -> loadData(u, flag)

\* the function the effect returned: clearInterval(authCheckInterval)
Cleanup(u) == IF u.component = "App" THEN [u EXCEPT !.timers = @ - 1] ELSE u

\* the first render with its effect; under StrictMode in a development build React
\* runs the effect, its cleanup and the effect again, all of the same render
Mount(c, strict, user, token) ==
    LET u0 == [component |-> c, strict |-> strict, user |-> user, token |-> token,
               state |-> InitialState, queued |-> InitialState, deps |-> <<>>,
               runs |-> <<>>, started |-> 0, timers |-> 0, timerFlag |-> FALSE,
               event |-> "mount", cause |-> "mount"]
        u1 == [Effect(u0, FALSE) EXCEPT !.deps = Deps(u0, InitialState)]
    IN /\ ui = NoUi
       /\ ui' = IF strict THEN Effect(Cleanup(u1), FALSE) ELSE u1
       /\ UiFrame

\* the event is recorded, as the cause when a run started in it
Stamp(u, event) ==
    [u EXCEPT !.event = event, !.cause = IF u.started > ui.started THEN event ELSE @]

\* a render: its own after a state update, or one its parent causes
Render ==
    LET u1 == [ui EXCEPT !.state = ui.queued] IN
    /\ ui # NoUi
    /\ ui' = IF Deps(u1, u1.state) = ui.deps THEN Stamp(u1, "render")
             ELSE Stamp([Effect(Cleanup(u1), u1.state.flag)
                            EXCEPT !.deps = Deps(u1, u1.state)], "render")
    /\ ui'.started <= MaxFetches
    /\ UiFrame

RemoveAt(q, i) == SubSeq(q, 1, i - 1) \o SubSeq(q, i + 1, Len(q))

\* the call run i awaits settles: the run goes on to its next await or, from the last
\* one or from a rejection its catch block takes, through finally
Settle(i, ok) ==
    /\ ui # NoUi
    /\ i \in 1..Len(ui.runs)
    /\ ui' = IF ok /\ ui.runs[i] > 1
             THEN [ui EXCEPT !.runs[i] = @ - 1, !.event = "settle"]
             ELSE [Finally(ui) EXCEPT !.runs = RemoveAt(@, i), !.event = "settle"]
    /\ UiFrame

\* the interval fires: checkAuth of the render that set it
IntervalFires ==
    /\ ui # NoUi
    /\ ui.timers > 0
    /\ ui' = Stamp(checkAuth(ui, ui.timerFlag), "interval")
    /\ ui'.started <= MaxFetches
    /\ UiFrame

\* localStorage changes: login as a user, or clearAuth
StorageUsers == {"", "admin-1", "customer-1"}
Storage(user, token) ==
    /\ ui # NoUi
    /\ ui' = [ui EXCEPT !.user = user, !.token = token, !.event = "storage"]
    /\ UiFrame

NextUi(c) ==
    \/ \E strict \in BOOLEAN, user \in StorageUsers, token \in BOOLEAN :
          Mount(c, strict, user, token)
    \/ Render
    \/ \E i \in 1..MaxFetches, ok \in BOOLEAN : Settle(i, ok)
    \/ \E user \in StorageUsers, token \in BOOLEAN : Storage(user, token)

NextApp == NextUi("App") \/ IntervalFires

SpecApp == Init /\ [][NextApp]_vars
SpecDashboard == Init /\ [][NextUi("Dashboard")]_vars
SpecDashboardPage == Init /\ [][NextUi("DashboardPage")]_vars

----------------------------------------------------------------------------
(* Properties *)

RoleGated(chain) == Len(chain) > 0
AllowList(chain) == IF Len(chain) >= 2 THEN chain[2].roles ELSE {}
InAllowList(chain, c) == AllowList(chain) = {} \/ c.user.role \in AllowList(chain)
GatedProcedures == {adminProcedure, factoryProcedure, customerProcedure,
                    protectedProcedure}

\* C1: the body of a role-gated procedure runs only for an authenticated context whose
\* role is in the procedure's allow-list (an empty allow-list admits every
\* authenticated role); this holds of the call just answered and of every gated
\* procedure builder under every header a client can send.
C1_BodyOnlyForAllowed ==
    /\ (req.proc # "" /\ RoleGated(req.chain) /\ resp.ran)
          => (ctx.isAuthenticated /\ ctx.user # NoUser /\ InAllowList(req.chain, ctx))
    /\ (req.proc # "" /\ req.chain = protectedProcedure /\ ctx.isAuthenticated)
          => resp.ran
    /\ \A chain \in GatedProcedures, h \in ClientHeaders :
          Admitted(chain, h) <=>
             (createAuthContext(h, now).isAuthenticated
                 /\ InAllowList(chain, createAuthContext(h, now)))

\* a factory user got into orders.getByStatus, after an admin-only call refused one
C1_Witness ==
    /\ req.proc = "orders.getByStatus"
    /\ resp.ran
    /\ ctx.user.role = "factory"
    /\ \E t \in tokens : t.payload.role = "customer"

\* C2: a gated call without an authenticated context is answered UNAUTHORIZED, one
\* with an authenticated context of a role outside the allow-list FORBIDDEN; the
\* unauthenticated answer wins over the role check, and a refused call carries
\* neither a not-found error nor any data.
C2_ErrorKinds ==
    (req.proc # "" /\ RoleGated(req.chain)) =>
        /\ ~ctx.isAuthenticated => (resp.code = "UNAUTHORIZED" /\ ~resp.ran)
        /\ (ctx.isAuthenticated /\ ~InAllowList(req.chain, ctx))
              => (resp.code = "FORBIDDEN" /\ ~resp.ran)
        /\ resp.code \in {"UNAUTHORIZED", "FORBIDDEN"}
              => resp = Answer(resp.code, resp.message, FALSE)
        /\ (ctx.isAuthenticated /\ InAllowList(req.chain, ctx))
              => resp.code \notin {"UNAUTHORIZED", "FORBIDDEN"}

\* the factory user called orders.getAll and was told FORBIDDEN
C2_Witness ==
    /\ req.proc = "orders.getAll"
    /\ ctx.isAuthenticated
    /\ ctx.user.role = "factory"
    /\ resp.code = "FORBIDDEN"

\* a step that answers a call of the users router or a read of the orders router:
\* neither the clock nor the store moves
AuthCallStep == /\ UNCHANGED <<now, ticks, users, writes>>
                /\ req'.proc # ""

\* the first of createAuthContext's five conditions that a header misses, 0 if none
C3_FirstFailure(h, ms) ==
    LET word == IF Len(h.rest) >= 1 THEN h.rest[1] ELSE EmptyToken
        hasHeader == h.present /\ ~(h.scheme = "" /\ h.rest = <<>>)
        hasPrefix == h.scheme = "Bearer" /\ Len(h.rest) >= 1
        hasToken == word.raw # ""
        verified == verifyToken(word, ms).ok
        resolved == verifyToken(word, ms).payload.id \in DOMAIN users
    IN IF ~hasHeader THEN 1
       ELSE IF ~hasPrefix THEN 2
       ELSE IF ~hasToken THEN 3
       ELSE IF ~verified THEN 4
       ELSE IF ~resolved THEN 5
       ELSE 0

\* C3: createAuthContext checks header present, 'Bearer ' prefix, non-empty token,
\* verifyToken, stored user, in that order (its warning names the first that fails);
\* any failure gives the unauthenticated context and raises nothing (a public
\* procedure still runs), and the context is authenticated only if all five pass.
C3_ChecksInOrder ==
    [][AuthCallStep =>
         /\ warned' = C3_FirstFailure(req'.header, now')
         /\ ctx'.isAuthenticated <=> warned' = 0
         /\ warned' # 0 => ctx' = Unauthenticated
         /\ ctx'.isAuthenticated => ctx'.user # NoUser
         /\ req'.chain = publicProcedure => resp'.ran
         /\ (warned' # 0 /\ RoleGated(req'.chain))
               => (resp'.code = "UNAUTHORIZED" /\ ~resp'.ran)]_vars

\* a verified token whose user was deleted: the fifth check failed
C3_Witness ==
    /\ req.proc = "users.me"
    /\ warned = 5
    /\ ctx = Unauthenticated
    /\ resp.code = "UNAUTHORIZED"

\* C4: the identity of an authenticated context is the stored user's at the time of
\* the call, whatever the token embeds: an admin-only call runs iff the stored role is
\* admin, and a verified token of a removed user gives the unauthenticated context.
C4_FreshIdentity ==
    [][AuthCallStep =>
         LET v == verifyToken(HeaderToken(req'.header), now')
             id == v.payload.id
         IN (StartsWithBearer(req'.header) /\ v.ok) =>
              /\ id \in DOMAIN users' =>
                   /\ ctx' = [isAuthenticated |-> TRUE,
                              user |-> [id |-> id, name |-> users'[id].name,
                                        email |-> users'[id].email,
                                        role |-> users'[id].role]]
                   /\ req'.chain = adminProcedure
                         => (resp'.ran <=> users'[id].role = "admin")
              /\ id \notin DOMAIN users' =>
                   /\ ctx' = Unauthenticated
                   /\ RoleGated(req'.chain) => resp'.code = "UNAUTHORIZED"]_vars

\* a token minted for a customer opens orders.getAll once the stored role is admin
C4_Witness ==
    /\ req.proc = "orders.getAll"
    /\ HeaderToken(req.header).payload.role = "customer"
    /\ ctx.isAuthenticated
    /\ ctx.user.role = "admin"
    /\ resp.ran

C5_BadSignature(t) == t.sig # <<JWT_SECRET, t.payload>>
C5_MissingField(t) == t.payload.id = "" \/ t.payload.email = "" \/ t.payload.role = ""
C5_Expired(t, ms) == t.payload.exp # NoExp /\ ms \div 1000 > t.payload.exp

\* C5: verifyToken returns null, and lets no error through, when the signature does
\* not match, when id, email or role is missing, and when the time is past the
\* expiry: one and the same value for the three causes; any other result is the
\* token's own payload.
C5_InvalidIsNull ==
    vout.called =>
        /\ ~vout.result.raised
        /\ (C5_BadSignature(vin) \/ C5_MissingField(vin) \/ C5_Expired(vin, now))
              => vout.result = Null
        /\ vout.result # Null => (vout.result.ok /\ vout.result.payload = vin.payload)

\* a well-signed, complete token past its expiry was answered null
C5_Witness ==
    /\ vout.called
    /\ vin.raw = "jwt"
    /\ ~C5_BadSignature(vin)
    /\ ~C5_MissingField(vin)
    /\ C5_Expired(vin, now)
    /\ vout.result = Null

\* C6: every token login hands out expires 24 hours after its issue time, the issue
\* time being the second of the call; a call bearing a token whose expiry has passed
\* gets the unauthenticated context, and a gated procedure answers it UNAUTHORIZED
\* without running.
C6_Expiry ==
    [][AuthCallStep =>
         /\ \A t \in tokens' : t.payload.exp = t.payload.iat + 24 * 60 * 60
         /\ (req'.proc = "users.login" /\ resp'.code = "OK")
               => (resp'.token \in tokens' /\ resp'.token.payload.iat = now' \div 1000)
         /\ LET tk == HeaderToken(req'.header) IN
            (tk.raw # "" /\ tk.payload.exp # NoExp /\ now' \div 1000 > tk.payload.exp)
               => /\ ~verifyToken(tk, now').ok
                  /\ ~ctx'.isAuthenticated
                  /\ RoleGated(req'.chain)
                        => (resp'.code = "UNAUTHORIZED" /\ ~resp'.ran)]_vars

\* the admin's own token, more than 24 hours old, no longer opens orders.getAll
C6_Witness ==
    /\ req.proc = "orders.getAll"
    /\ req.header \in {Bearer(t) : t \in tokens}
    /\ HeaderToken(req.header).payload.role = "admin"
    /\ now \div 1000 > HeaderToken(req.header).payload.exp
    /\ resp.code = "UNAUTHORIZED"

C7_SeededPair(email, password) ==
    \E u \in SeedUserIds : SeedUsers[u].email = email
                             /\ SeedUsers[u].password = Hash(password)

C7_Identity(u) == [id |-> u, name |-> SeedUsers[u].name, email |-> SeedUsers[u].email,
                   role |-> SeedUsers[u].role]

\* C7: users.login with a seeded user's email and password returns that user and a
\* token that verifyToken accepts, embedding the user's id, email and role; users.me
\* called with a token login handed out, while it verifies, returns that user.
C7_LoginRoundTrip ==
    [][AuthCallStep =>
         /\ (req'.proc = "users.login"
               /\ C7_SeededPair(LoginEmail(req'.input), LoginPassword(req'.input))) =>
              LET u == CHOOSE u \in SeedUserIds :
                          SeedUsers[u].email = LoginEmail(req'.input)
              IN /\ resp'.code = "OK"
                 /\ resp'.user = C7_Identity(u)
                 /\ verifyToken(resp'.token, now').ok
                 /\ verifyToken(resp'.token, now').payload.id = u
                 /\ verifyToken(resp'.token, now').payload.email = SeedUsers[u].email
                 /\ verifyToken(resp'.token, now').payload.role = SeedUsers[u].role
         /\ \A t \in tokens' :
              (req'.proc = "users.me" /\ req'.header = Bearer(t)
                 /\ verifyToken(t, now').ok) =>
                   /\ resp'.code = "OK"
                   /\ resp'.user = C7_Identity(t.payload.id)
                   /\ resp'.user.role = t.payload.role]_vars

\* the factory user logged in (nested input) and users.me answered with that user
C7_Witness ==
    /\ req.proc = "users.me"
    /\ req.header \in {Bearer(t) : t \in tokens}
    /\ resp.code = "OK"
    /\ resp.user = C7_Identity("factory-1")

\* the last row of a non-empty timeline
C8_Last(rows) == rows[Len(rows)]

\* C8: an orders.updateStatus call on an existing order adds exactly one timeline
\* event to that order, after the events it had; the event's status is the order's
\* status after the call (the status asked for); no other order, and no other
\* order's timeline, changes; and every admitted call on an existing order does so.
C8_OneEventPerUpdate ==
    [][req'.proc = "orders.updateStatus" =>
         /\ (resp'.ran /\ req'.input.id \in DOMAIN orders) =>
              LET id == req'.input.id
                  before == TimelineRows(Store, id)
                  after == TimelineRows(Store', id)
              IN /\ resp'.code = "OK"
                 /\ Len(after) = Len(before) + 1
                 /\ SubSeq(after, 1, Len(before)) = before
                 /\ C8_Last(after).status = orders'[id].status
                 /\ orders'[id].status = req'.input.status
                 /\ resp'.order.status = orders'[id].status
                 /\ DOMAIN orders' = DOMAIN orders
                 /\ \A o \in DOMAIN orders \ {id} :
                       /\ orders'[o] = orders[o]
                       /\ TimelineRows(Store', o) = TimelineRows(Store, o)
         /\ ~(resp'.ran /\ req'.input.id \in DOMAIN orders) =>
              (orders' = orders /\ timeline' = timeline)]_vars

\* order-1 went from processing to shipped: a second event, with the new status
C8_Witness ==
    /\ req.proc = "orders.updateStatus"
    /\ resp.code = "OK"
    /\ req.input.id = "order-1"
    /\ orders["order-1"].status = "shipped"
    /\ Len(TimelineRows(Store, "order-1")) = 2
    /\ C8_Last(TimelineRows(Store, "order-1")).status = "shipped"

\* what one read of an order and its timeline may show: the order with its latest
\* event, or neither
\* (the latest event is the one with the greatest rowid, wherever the query put it)
C9_Latest(events) ==
    CHOOSE e \in {events[i] : i \in 1..Len(events)} :
        \A i \in 1..Len(events) : events[i].id <= e.id

C9_Matching(order, events) ==
    IF order = NoOrder
    THEN events = <<>>
    ELSE Len(events) >= 1 /\ C9_Latest(events).status = order.status

\* C9: the two writes of one updateStatus (status column, timeline event) and of one
\* create (order row, first event) take effect together: whatever a reader saw, and
\* the committed store itself, never has an order whose status differs from its
\* latest event or an event without its order; and a transaction that ends without
\* commit leaves the store as it was.
C9_AtomicUnit ==
    /\ [](/\ C9_Matching(seen.order, seen.events)
          /\ \A id \in OrderIdInputs :
                C9_Matching(OrderGetById(Store, id), TimelineRows(Store, id)))
    /\ [][(tx.active /\ ~tx'.active) =>
            IF tx.pc = 3 THEN Store' = tx.work ELSE Store' = Store]_vars
    /\ [][(tx.active /\ tx'.active /\ tx'.pc # tx.pc) => Store' = Store]_vars

\* a reader during an open updateStatus, after its first statement: it saw the old
\* status with the old events
C9_Witness ==
    /\ tx.active
    /\ tx.op = "updateStatus"
    /\ tx.pc = 2
    /\ seen.order.id = tx.id
    /\ seen.order.status # tx.work.orders[tx.id].status
    /\ seen.events = TimelineRows(Store, tx.id)
    /\ C9_Latest(seen.events).status = seen.order.status

\* C10: every order has an event for its current status, the latest one; a new order
\* starts with exactly one event; and an existing order gains exactly one event when
\* its status changes and none otherwise (one event per status transition).
C10_EventPerTransition ==
    /\ [](\A id \in DOMAIN orders :
             C9_Matching(OrderGetById(Store, id), TimelineRows(Store, id)))
    /\ [][\A id \in DOMAIN orders' :
            IF id \notin DOMAIN orders
            THEN Len(TimelineRows(Store', id)) = 1
            ELSE Len(TimelineRows(Store', id)) =
                    Len(TimelineRows(Store, id))
                       + (IF orders'[id].status # orders[id].status THEN 1 ELSE 0)]_vars

\* what the repository does keep: one event per create and per updateStatus call,
\* whether or not the status changes, the latest event carrying the current status
C10_EventPerCall ==
    /\ [](\A id \in DOMAIN orders :
             C9_Matching(OrderGetById(Store, id), TimelineRows(Store, id)))
    /\ [][\A id \in DOMAIN orders' :
            IF id \notin DOMAIN orders
            THEN Len(TimelineRows(Store', id)) = 1
            ELSE Len(TimelineRows(Store', id)) =
                    Len(TimelineRows(Store, id))
                       + (IF req'.proc = "orders.updateStatus" /\ resp'.code = "OK"
                             /\ req'.input.id = id THEN 1 ELSE 0)]_vars

\* an updateStatus call that named the status the order already had: two events in a
\* row for one status
C10_Witness ==
    /\ req.proc = "orders.updateStatus"
    /\ resp.code = "OK"
    /\ LET rows == TimelineRows(Store, req.input.id)
       IN /\ Len(rows) >= 2
          /\ rows[Len(rows)].status = rows[Len(rows) - 1].status
          /\ rows[Len(rows)].status = orders[req.input.id].status

\* the rowids of rows, in the order given
C11_Ids(rows) == [i \in 1..Len(rows) |-> rows[i].id]

\* C11: orders.getOrderTimeline answers the events of the order in the order their
\* createOrder / updateStatus calls were committed (the order of their rowids), also
\* when two of them carry the same timestamp.
C11_CommitOrder ==
    [][(req'.proc = "orders.getOrderTimeline" /\ resp'.code = "OK") =>
          resp'.events = TimelineRows(Store', req'.input.orderId)]_vars

\* what the query does give: the order's events, each once, never a later timestamp
\* before an earlier one; in commit order whenever no two timestamps are equal
C11_AscendingTime ==
    [][(req'.proc = "orders.getOrderTimeline" /\ resp'.code = "OK") =>
          LET rows == TimelineRows(Store', req'.input.orderId)
              got == resp'.events
          IN /\ Len(got) = Len(rows)
             /\ {got[i] : i \in 1..Len(got)} = {rows[i] : i \in 1..Len(rows)}
             /\ \A i, j \in 1..Len(got) :
                   i < j => ~CreatedAtBefore(got[j].created_at, got[i].created_at)
             /\ (\A i, j \in 1..Len(rows) :
                    i # j => rows[i].created_at # rows[j].created_at) => got = rows]_vars

\* two updateStatus calls on order-1 within one millisecond, read back with the
\* second call's event before the first's
C11_Witness ==
    /\ req.proc = "orders.getOrderTimeline"
    /\ resp.code = "OK"
    /\ req.input.orderId = "order-1"
    /\ Len(resp.events) = 3
    /\ resp.events[2].id > resp.events[3].id
    /\ resp.events[2].created_at = resp.events[3].created_at

\* the place of a status in pending -> ... -> delivered; cancelled stands aside
C12_Rank(st) ==
    CASE st = "pending" -> 1
      [] st = "processing" -> 2
      [] st = "manufacturing" -> 3
      [] st = "quality_check" -> 4
      [] st = "shipped" -> 5
      [] st = "delivered" -> 6
      [] OTHER -> 0

C12_Terminal(st) == st \in {"delivered", "cancelled"}

\* C12: an order's status never moves to an earlier status of the fixed order
\* pending -> processing -> manufacturing -> quality_check -> shipped -> delivered,
\* moves to cancelled only from a non-terminal status, and never changes once it is
\* delivered or cancelled.
C12_ForwardOnly ==
    [][\A id \in DOMAIN orders \cap DOMAIN orders' :
          orders'[id].status # orders[id].status =>
             /\ ~C12_Terminal(orders[id].status)
             /\ \/ orders'[id].status = "cancelled"
                \/ C12_Rank(orders'[id].status) > C12_Rank(orders[id].status)]_vars

\* order-1, seeded as processing, is pending again after an updateStatus call
C12_Witness ==
    /\ req.proc = "orders.updateStatus"
    /\ resp.code = "OK"
    /\ req.input.id = "order-1"
    /\ orders["order-1"].status = "pending"
    /\ TimelineRows(Store, "order-1")[1].status = "processing"

\* the last call was a customer's, for orders or events that are not the caller's own
C13_Foreign ==
    /\ req.proc \in {"orders.getByUserId", "orders.getById", "orders.getOrderTimeline"}
    /\ ctx.isAuthenticated
    /\ ctx.user.role = "customer"
    /\ CASE req.proc = "orders.getByUserId" -> req.input.userId # ctx.user.id
         [] req.proc = "orders.getById" ->
               /\ req.input.id \in DOMAIN orders
               /\ orders[req.input.id].user_id # ctx.user.id
         [] OTHER ->
               /\ req.input.orderId \in DOMAIN orders
               /\ orders[req.input.orderId].user_id # ctx.user.id

\* an answer without order data
C13_NoData(a) == a = Answer(a.code, a.message, a.ran)

\* C13: a customer asking for another user's orders (getByUserId), order (getById) or
\* events (getOrderTimeline) is answered FORBIDDEN, without order data.
C13_OwnershipForbidden ==
    C13_Foreign => (resp.code = "FORBIDDEN" /\ C13_NoData(resp))

\* what the router does keep: such a call is refused without order data, and staff
\* are not held to ownership
C13_OwnershipRefused ==
    /\ C13_Foreign => (resp.code # "OK" /\ C13_NoData(resp))
    /\ (req.proc = "orders.getById" /\ ctx.isAuthenticated
           /\ ctx.user.role \in {"admin", "factory"} /\ req.input.id \in DOMAIN orders)
          => (resp.code = "OK" /\ resp.order = OrderGetById(Store, req.input.id))

\* the customer asked for an order the admin owns and got INTERNAL_SERVER_ERROR
C13_Witness ==
    /\ req.proc = "orders.getById"
    /\ C13_Foreign
    /\ orders[req.input.id].user_id = "admin-1"
    /\ resp.code = "INTERNAL_SERVER_ERROR"
    /\ resp.message = "Access denied: Cannot view this order"

RECURSIVE C14_Sum(_, _)
\* the sum of f over the set S of its arguments
C14_Sum(f, S) ==
    IF S = {} THEN 0
    ELSE LET x == CHOOSE x \in S : TRUE IN f[x] + C14_Sum(f, S \ {x})

C14_Count(st) == Cardinality({id \in DOMAIN orders : orders[id].status = st})

C14_WitnessShared ==
    /\ req.proc = "orders.getAnalytics"
    /\ resp.code = "OK"
    /\ resp.analytics.totalOrders = 3
    /\ \E row \in resp.analytics.pieChartData : row.count = 2

\* the details of a createOrder input as the blob a fetch should give back: nothing
\* for absent details, the string itself, the JSON text of an object
C15_Blob(d) ==
    IF d.kind = "none" THEN NoDetails
    ELSE IF d.kind = "string" THEN <<"text", d.v>>
    ELSE JsonStringify(d.v)

\* a createOrder call that was answered with the new order
C15_Created == req'.proc = "orders.createOrder" /\ resp'.code = "OK" /\ writes' = writes + 1

\* everything of the round trip but the details
C15_Fetched(got, events) ==
    /\ got.id = resp'.order.id
    /\ got.id \notin DOMAIN orders
    /\ got.user_id = req'.input.user_id
    /\ got.status = req'.input.status
    /\ got.customer_name = req'.input.customer_name
    /\ got.amount = req'.input.amount
    /\ got.created_at = Iso(now)
    /\ got.updated_at = Iso(now)
    /\ \A ev \in events : Len(ev) = 1 /\ ev[1].status = req'.input.status
                                       /\ ev[1].order_id = got.id

\* C15: right after createOrder, getById of the returned id gives a record whose
\* owner, status, customer name, amount and details are the input's, with a new id
\* and the timestamps of the call, and getOrderTimeline gives exactly one event, with
\* the initial status.
C15_RoundTrip ==
    [][C15_Created =>
         LET got == OrderGetById(Store', resp'.order.id)
         IN /\ C15_Fetched(got, getOrderTimeline(Store', resp'.order.id))
            /\ got.details = C15_Blob(req'.input.details)]_vars

\* what the round trip does keep: all of the above, the details being dropped when
\* the input's details is an empty string
C15_RoundTripTruthy ==
    [][C15_Created =>
         LET got == OrderGetById(Store', resp'.order.id)
             d == req'.input.details
         IN /\ C15_Fetched(got, getOrderTimeline(Store', resp'.order.id))
            /\ got.details = IF d.kind = "string" /\ d.v = "" THEN NoDetails
                             ELSE C15_Blob(d)]_vars

\* an order created with details "" and fetched back by the admin without details
C15_Witness ==
    /\ req.proc = "orders.getById"
    /\ resp.code = "OK"
    /\ resp.order.id = Uuids[1]
    /\ resp.order.status = "processing"
    /\ resp.order.details = NoDetails

\* rows is what after begins with
C16_Prefix(rows, after) ==
    Len(rows) <= Len(after) /\ SubSeq(after, 1, Len(rows)) = rows

\* C16: every timeline event belongs to an order that exists, in the store and in what
\* a reader sees; the events of an order that stays are only ever added to, never
\* changed or removed; an order goes together with all its events, and only by a
\* delete; this with updateStatus, addSuggestion, create and delete running statement
\* by statement and a delete of another connection committing in between.
C16_NoOrphans ==
    /\ [](\A i \in 1..Len(timeline) : timeline[i].order_id \in DOMAIN orders)
    /\ [](seen.events # <<>> => seen.order # NoOrder)
    /\ [][\A id \in DOMAIN orders \cap DOMAIN orders' :
             C16_Prefix(TimelineRows(Store, id), TimelineRows(Store', id))]_vars
    /\ [][\A id \in DOMAIN orders \ DOMAIN orders' :
             /\ TimelineRows(Store', id) = <<>>
             /\ \/ tx.active /\ tx.op = "delete" /\ tx.pc = 3 /\ tx.id = id
                \/ tx.active /\ tx'.active /\ tx'.pc = tx.pc]_vars

\* an updateStatus call whose order was deleted under it ended without a result, and
\* left no event behind
C16_Witness ==
    /\ ~tx.active
    /\ tx.op = "updateStatus"
    /\ tx.pc = 5
    /\ tx.id \in SeedOrderIds
    /\ tx.id \notin DOMAIN orders
    /\ TimelineRows(Store, tx.id) = <<>>
    /\ writes = 1

\* C17: an updateStatus or addSuggestion call for an order that is not in the store
\* when the call ends (never there, or deleted after the call's look-up) ends without
\* a result and leaves orders and timelines as they were.
C17_MissingOrderFails ==
    [][(~tx'.active /\ tx' # tx /\ tx'.pc \in {4, 5}
          /\ tx'.op \in {"updateStatus", "addSuggestion"}
          /\ tx'.id \notin DOMAIN orders)
         => (tx'.pc = 5 /\ Store' = Store)]_vars

\* the same at the router: the call is answered with an error
C17_RouterRefuses ==
    [][(req'.proc \in {"orders.updateStatus", "orders.addSuggestion"} /\ resp'.ran
          /\ req'.input.id \notin DOMAIN orders)
         => (resp'.code = "INTERNAL_SERVER_ERROR" /\ Store' = Store)]_vars

\* an addSuggestion call for order-1, which a delete removed, ended without a result
C17_Witness ==
    /\ ~tx.active
    /\ tx.op = "addSuggestion"
    /\ tx.pc = 5
    /\ tx.id = "order-1"
    /\ "order-1" \notin DOMAIN orders
    /\ "order-2" \in DOMAIN orders

\* C18: orders.deleteOrder for an id that matches no order is refused with the error
\* 'Order not found or delete failed', is not answered { success: true }, and leaves
\* the store as it was.
C18_DeleteMissingRefused ==
    [][(req'.proc = "orders.deleteOrder" /\ resp'.ran
          /\ req'.input.id \notin DOMAIN orders)
         => /\ resp'.code # "OK"
            /\ resp'.message = "Order not found or delete failed"
            /\ ~resp'.success
            /\ Store' = Store]_vars

\* what does hold of such a call: the store is as it was
C18_DeleteMissingNoEffect ==
    [][(req'.proc = "orders.deleteOrder" /\ resp'.ran
          /\ req'.input.id \notin DOMAIN orders) => Store' = Store]_vars

\* the admin deleted an id no order ever had and was answered { success: true }
C18_Witness ==
    /\ req.proc = "orders.deleteOrder"
    /\ resp.code = "OK"
    /\ resp.success
    /\ req.input.id = Uuids[1]
    /\ created = 0

\* C19: an order's suggestion changes only by an addSuggestion call of a caller whose
\* role is factory, to exactly the text given, replacing whatever was there; a new
\* order has none, and createOrder, updateStatus and deleteOrder set none.
C19_SuggestionByFactory ==
    [][/\ \A id \in DOMAIN orders' :
            /\ id \notin DOMAIN orders => orders'[id].suggestion = ""
            /\ (id \in DOMAIN orders /\ orders'[id].suggestion # orders[id].suggestion) =>
                  /\ req'.proc = "orders.addSuggestion"
                  /\ ctx'.isAuthenticated
                  /\ ctx'.user.role = "factory"
                  /\ req'.input.id = id
       /\ (req'.proc = "orders.addSuggestion" /\ resp'.code = "OK") =>
            /\ orders'[req'.input.id].suggestion = req'.input.suggestion
            /\ resp'.order.suggestion = req'.input.suggestion
            /\ \A id \in DOMAIN orders \ {req'.input.id} : orders'[id] = orders[id]
            /\ timeline' = timeline
       /\ (req'.proc = "orders.addSuggestion" /\ ctx'.isAuthenticated
             /\ ctx'.user.role # "factory") => (resp'.code = "FORBIDDEN" /\ orders' = orders)
      ]_vars

\* the factory replaced its suggestion on order-1 by the empty text
C19_Witness ==
    /\ req.proc = "orders.addSuggestion"
    /\ resp.code = "OK"
    /\ ctx.user.role = "factory"
    /\ req.input.suggestion = ""
    /\ orders[req.input.id].suggestion = ""
    /\ writes = 2
    /\ \A id \in DOMAIN orders : orders[id].status = SeedOrder(id, 0).status

\* the last call was a sync that ran, and exactly one adapter's call was rejected
C20_OneFailed ==
    /\ req.proc \in {"erp.syncAll", "GET /api/erp/sync"}
    /\ resp.ran
    /\ (req.input.logicMate = "rejected") # (req.input.suntec = "rejected")

C20_AllOrNothing ==
    (req.proc \in {"erp.syncAll", "GET /api/erp/sync"} /\ resp.ran) =>
        IF req.input.logicMate = "data" /\ req.input.suntec = "data"
        THEN resp.code = "OK" /\ resp.erp = [logicMate |-> "data", suntec |-> "data"]
        ELSE /\ resp.code = "INTERNAL_SERVER_ERROR"
             /\ resp.message = "ERP sync failed"
             /\ resp.erp = [logicMate |-> "", suntec |-> ""]

C21_Empty(s) == s \in {Undefined, ""}

\* the precedence, read off the two reported statuses
C21_Precedence(first, second) ==
    CASE "delivered" \in {first, second} -> "delivered"
      [] "delivered" \notin {first, second} /\ "manufacturing" \in {first, second}
           -> "manufacturing"
      [] OTHER -> IF ~C21_Empty(first) THEN first ELSE second

\* C21: the combined status of an order follows one precedence for every pair of
\* reported statuses, empty ones included: delivered if either system reports
\* delivered, else manufacturing if either reports manufacturing, else the first
\* system's status when it is not empty, otherwise the second system's status.
C21_CombinedStatus ==
    (req.proc = "erp.getOrderERPDetails" /\ resp.code = "OK") =>
        resp.combinedStatus = C21_Precedence(req.input.logicMate, req.input.suntec)

\* the first system reports nothing, the second one shipped: the second one's wins
C21_Witness ==
    /\ req.proc = "erp.getOrderERPDetails"
    /\ resp.code = "OK"
    /\ req.input.logicMate = ""
    /\ req.input.suntec = "shipped"
    /\ resp.combinedStatus = "shipped"

\* manufacturing in the second system beats processing in the first
C21_WitnessManufacturing ==
    /\ req.proc = "erp.getOrderERPDetails"
    /\ resp.code = "OK"
    /\ req.input.logicMate = "processing"
    /\ req.input.suntec = "manufacturing"
    /\ resp.combinedStatus = "manufacturing"

\* the entry points that call an ERP adapter
C22_EntryPoints ==
    {"erp.getLogicMateStatus", "erp.getSuntecStatus", "erp.getOrderERPDetails",
     "erp.syncAll", "erp.updateInventory", "erp.updateFactoryStatus",
     "GET /api/erp/logicmate/status", "GET /api/erp/suntec/status", "GET /api/erp/sync"}

\* who sent the last request (no clock step in SpecErpCalls: now is the time of the call)
C22_Caller == createAuthContext(req.header, now)

\* C22: every entry point of the server that invokes the ERP facade is reachable only
\* by an authenticated caller with role admin or factory: no adapter is called for an
\* unauthenticated request or for a customer.
C22_StaffOnly ==
    (req.proc \in C22_EntryPoints /\ resp.ran) =>
        /\ C22_Caller.isAuthenticated
        /\ C22_Caller.user.role \in {"admin", "factory"}

\* the same for the procedures of the erp router alone
C22_RouterStaffOnly ==
    (req.proc \in C22_EntryPoints /\ req.chain # publicProcedure /\ resp.ran) =>
        /\ C22_Caller.isAuthenticated
        /\ C22_Caller.user.role \in {"admin", "factory"}

\* GET /api/erp/sync without credentials ran the sync of both adapters
C22_Witness ==
    /\ req.proc = "GET /api/erp/sync"
    /\ req.header = NoHeader
    /\ resp.ran
    /\ resp.code = "OK"
    /\ resp.erp = [logicMate |-> "data", suntec |-> "data"]

\* C23: an error response crossing the RPC boundary carries the error's stack trace
\* only in development mode; in any other mode no error response carries one, whatever
\* procedure failed and whatever the cause.
C23_StackOnlyInDevelopment ==
    resp.stack => env = "development"

\* what the formatter does: every error response carries the stack, in every mode
C23_StackAlways ==
    (resp.code \notin {"", "OK"}) => resp.stack

\* a call without credentials on a production server is answered with the stack
C23_Witness ==
    /\ env = "production"
    /\ req.proc = "orders.getAll"
    /\ resp.code = "UNAUTHORIZED"
    /\ resp.stack

\* the email and password a login input carries, in the flat shape or under json
C24_Flat(input) == input.email # "" /\ input.password # ""
C24_Email(input) == IF C24_Flat(input) THEN input.email ELSE input.json.email
C24_Password(input) == IF C24_Flat(input) THEN input.password ELSE input.json.password
C24_Missing(input) ==
    ~C24_Flat(input) /\ ~(input.json.present /\ input.json.email # ""
                            /\ input.json.password # "")

\* the pair is that of a stored user: the email is stored and the password hashes to
\* the password stored with it
C24_Stored(input) ==
    \E u \in DOMAIN users : /\ users[u].email = C24_Email(input)
                            /\ BcryptCompare(C24_Password(input), users[u].password)

\* C24: users.login without both an email and a password, flat or nested, fails with
\* BAD_REQUEST (missing credentials); with a well-formed pair that matches no stored
\* user and password it fails with UNAUTHORIZED (invalid credentials); in neither case
\* is a token issued, and the two kinds of error differ.
C24_LoginErrors ==
    /\ [](req.proc = "users.login" =>
            /\ C24_Missing(req.input) =>
                   (resp.code = "BAD_REQUEST" /\ resp.token = EmptyToken)
            /\ (~C24_Missing(req.input) /\ ~C24_Stored(req.input)) =>
                   (resp.code = "UNAUTHORIZED" /\ resp.token = EmptyToken))
    /\ [][(req'.proc = "users.login"
             /\ (C24_Missing(req'.input) \/ ~C24_Stored(req'.input))) =>
                tokens' = tokens]_vars

\* the same for every pair but the three that authenticate compares literally
C24_LoginErrorsButLiterals ==
    (req.proc = "users.login"
       /\ ~TestCredentials(C24_Email(req.input), C24_Password(req.input))) =>
        /\ C24_Missing(req.input) =>
               (resp.code = "BAD_REQUEST" /\ resp.token = EmptyToken)
        /\ (~C24_Missing(req.input) /\ ~C24_Stored(req.input)) =>
               (resp.code = "UNAUTHORIZED" /\ resp.token = EmptyToken)

\* the admin's password was replaced, and admin123 still logs the admin in
C24_Witness ==
    /\ req.proc = "users.login"
    /\ req.input = Flat("admin@zenith.com", "admin123")
    /\ ~C24_Stored(req.input)
    /\ resp.code = "OK"
    /\ resp.token \in tokens

\* a login without a password was answered BAD_REQUEST, one with a wrong password
\* UNAUTHORIZED
C24_WitnessMissing ==
    /\ req.proc = "users.login"
    /\ req.input = Flat("admin@zenith.com", "")
    /\ resp.code = "BAD_REQUEST"
C24_WitnessInvalid ==
    /\ req.proc = "users.login"
    /\ req.input = Flat("customer@zenith.com", "wrong")
    /\ resp.code = "UNAUTHORIZED"

\* the caller of the call just answered has role admin
C25_ByAdmin == ctx'.isAuthenticated /\ ctx'.user.role = "admin"

\* C25: over every sequence of calls, a user's role never changes after the user is
\* created, a user's password hash changes only by users.updatePassword called by an
\* admin for that user, and no call of a customer, a factory user or an
\* unauthenticated caller modifies any user record.
C25_UsersImmutable ==
    [][/\ \A u \in DOMAIN users :
            /\ u \in DOMAIN users'
            /\ users'[u].role = users[u].role
            /\ users'[u].password # users[u].password =>
                  /\ req'.proc = "users.updatePassword"
                  /\ resp'.code = "OK"
                  /\ req'.input.userId = u
                  /\ C25_ByAdmin
       /\ users' # users => C25_ByAdmin]_vars

\* the admin replaced the customer's password; the customer is still a customer
C25_Witness ==
    /\ req.proc = "users.updatePassword"
    /\ resp.code = "OK"
    /\ req.input.userId = "customer-1"
    /\ ctx.user.role = "admin"
    /\ users["customer-1"].password = Hash("rotated1")
    /\ users["customer-1"].role = "customer"

\* a customer's updatePassword was refused and changed nothing
C25_WitnessRefused ==
    /\ req.proc = "users.updatePassword"
    /\ ctx.isAuthenticated
    /\ ctx.user.role = "customer"
    /\ resp.code = "FORBIDDEN"
    /\ users = SeedUsers

\* the password the user was created with
C29_First(u) == IF u \in SeedUserIds THEN SeedUsers[u].password ELSE Hash("secret12")

\* updatePassword has succeeded for the user and replaced the password
C29_Rotated(u) == u \in DOMAIN users /\ users[u].password # C29_First(u)

\* C29: after users.updatePassword succeeds for a user, users.login for that user
\* succeeds with the new password and is rejected with invalid credentials for the
\* previous password; this holds for every user, the seeded accounts included.
C29_RotationTakesEffect ==
    req.proc = "users.login" =>
        \A u \in DOMAIN users :
            (C29_Rotated(u) /\ ~C24_Missing(req.input)
               /\ users[u].email = C24_Email(req.input)) =>
                IF BcryptCompare(C24_Password(req.input), users[u].password)
                THEN resp.code = "OK" /\ resp.user.id = u
                ELSE resp.code = "UNAUTHORIZED"

\* the half that holds: the new password logs the user in
C29_NewPasswordAccepted ==
    req.proc = "users.login" =>
        \A u \in DOMAIN users :
            (C29_Rotated(u) /\ ~C24_Missing(req.input)
               /\ users[u].email = C24_Email(req.input)
               /\ BcryptCompare(C24_Password(req.input), users[u].password)) =>
                (resp.code = "OK" /\ resp.user.id = u)

\* the customer's password was replaced by rotated1, and customer123 still logs the
\* customer in
C29_Witness ==
    /\ req.proc = "users.login"
    /\ req.input = Nested("customer@zenith.com", "customer123")
    /\ users["customer-1"].password = Hash("rotated1")
    /\ resp.code = "OK"
    /\ resp.user.id = "customer-1"

\* the created user's password was replaced, and the first one is rejected
C29_WitnessCreated ==
    /\ req.proc = "users.login"
    /\ req.input = Flat("new@zenith.com", "secret12")
    /\ C29_Rotated(UserUuids[1])
    /\ resp.code = "UNAUTHORIZED"

\* an order row without its suggestion and its update timestamp
C30_Rest(row) ==
    [user_id |-> row.user_id, status |-> row.status, customer_name |-> row.customer_name,
     amount |-> row.amount, details |-> row.details, created_at |-> row.created_at]

\* C30: addSuggestion changes only the suggestion and the update timestamp of the
\* addressed order: that order's status, owner, customer name, amount and details stay,
\* no timeline event is appended to any order, and all other orders stay as they are;
\* a call that fails changes nothing.
C30_SuggestionFrame ==
    [][req'.proc = "orders.addSuggestion" =>
         /\ timeline' = timeline
         /\ seq' = seq
         /\ DOMAIN orders' = DOMAIN orders
         /\ resp'.code # "OK" => orders' = orders
         /\ resp'.code = "OK" =>
              /\ C30_Rest(orders'[req'.input.id]) = C30_Rest(orders[req'.input.id])
              /\ orders'[req'.input.id].updated_at = Iso(now)
              /\ \A id \in DOMAIN orders \ {req'.input.id} : orders'[id] = orders[id]]_vars

\* a suggestion was put on order-2, which is still in manufacturing with its one event,
\* and order-1 carries none
C30_Witness ==
    /\ req.proc = "orders.addSuggestion"
    /\ resp.code = "OK"
    /\ req.input.id = "order-2"
    /\ req.input.suggestion # ""
    /\ orders["order-2"].suggestion = req.input.suggestion
    /\ orders["order-2"].status = SeedOrder("order-2", 0).status
    /\ orders["order-1"] = SeedOrder("order-1", 0)
    /\ timeline = seedInitialData(0).timeline
    /\ writes = 1

\* the fetchData runs of the mounted layout Dashboard that have not ended
C26_InFlight == IF ui = NoUi THEN 0 ELSE Len(ui.runs)

\* C26: in the layout Dashboard, once a user is logged in, the data-loading effect
\* starts a fetch only on mount and when the user's id changes: at most one fetchData
\* run is in flight at any time, mounting starts at most one, the state updates of a
\* fetch never start another one, and a fetch that ends leaves loading = false and
\* isFetching = false set, so the fetches after one login are bounded.
C26_FetchOnce ==
    /\ [](C26_InFlight <= 1)
    /\ []((ui # NoUi /\ ui.event = "mount") => ui.started <= 1)
    /\ [][(ui # NoUi /\ ui'.started > ui.started) =>
             (ui'.event = "render" /\ ui'.deps # ui.deps)]_vars
    /\ [][(ui # NoUi /\ Len(ui'.runs) < Len(ui.runs)) =>
             ui'.queued = [flag |-> FALSE, loading |-> FALSE]]_vars

\* what holds in every build: a fetch starts only on mount and on a change of the id,
\* and a fetch that ends sets loading and isFetching to false
C26_NoLoop ==
    /\ [][(ui # NoUi /\ ui'.started > ui.started) =>
             (ui'.event = "render" /\ ui'.deps # ui.deps)]_vars
    /\ [][(ui # NoUi /\ Len(ui'.runs) < Len(ui.runs)) =>
             ui'.queued = [flag |-> FALSE, loading |-> FALSE]]_vars

\* what holds without the second effect run of StrictMode: one fetch in flight
C26_OneInFlightProduction ==
    (ui # NoUi /\ ~ui.strict) => (Len(ui.runs) <= 1 /\ (ui.event = "mount" => ui.started <= 1))

\* mounted under StrictMode in a development build, with a user and a token stored:
\* two fetchData runs are in flight before the first render after mount
C26_Witness ==
    /\ ui # NoUi
    /\ ui.component = "Dashboard"
    /\ ui.strict
    /\ ui.event = "mount"
    /\ ui.user = "admin-1"
    /\ ui.token
    /\ ui.started = 2
    /\ Len(ui.runs) = 2

\* C27: in App at most one checkAuth run is in flight at any time and exactly one
\* interval timer is active; while App stays mounted with a stored token and user,
\* checkAuth runs once on mount and then only when the interval fires: the completion
\* of an auth check never starts another one.
C27_SingleCheck ==
    ui # NoUi =>
        /\ Len(ui.runs) <= 1
        /\ ui.timers = 1
        /\ ui.event = "mount" => ui.started <= 1
        /\ ui.cause \in {"mount", "interval"}

\* what holds: one interval timer, whatever happens
C27_OneTimer == ui # NoUi => ui.timers = 1

\* no StrictMode, a token and a user stored: the render that followed the end of the
\* first check started a second one
C27_Witness ==
    /\ ui # NoUi
    /\ ui.component = "App"
    /\ ~ui.strict
    /\ ui.token /\ ui.user = "admin-1"
    /\ ui.cause = "render"
    /\ ui.event = "render"
    /\ ui.started = 2
    /\ Len(ui.runs) = 1
    /\ ui.timers = 1

\* C28: in the dashboard page component the isFetching flag prevents duplicate fetches:
\* with role and id unchanged loadData runs once after mount, no second loadData starts
\* while one is in flight, and after it completes (loading = false, isFetching = false)
\* no further loadData starts.
C28_LoadOnce ==
    ui # NoUi =>
        /\ Len(ui.runs) <= 1
        /\ ui.started <= 1
        /\ ui.cause = "mount"

\* what holds without the second effect run of StrictMode: one loadData in flight
C28_OneInFlight == (ui # NoUi /\ ~ui.strict) => Len(ui.runs) <= 1

\* the first loadData completed, the render showed loading = false and isFetching =
\* false, and its effect started the second loadData
C28_Witness ==
    /\ ui # NoUi
    /\ ui.component = "DashboardPage"
    /\ ~ui.strict
    /\ ui.state = [flag |-> FALSE, loading |-> FALSE]
    /\ ui.event = "render"
    /\ ui.cause = "render"
    /\ ui.started = 2
    /\ Len(ui.runs) = 1

====
